---- MODULE Spec2Model ----
(***************************************************************************)
(* Model of the rustatio session engine (rustatio-core/src/faker.rs) and   *)
(* of the server's supervisor (rustatio-server/src/state.rs).              *)
(*                                                                         *)
(* Units.  Byte counters are bytes, times are whole seconds.  Configured   *)
(* rates are KiB/s; a base rate is carried in hundredths of a KiB/s and a  *)
(* jittered rate in ten-thousandths (base * variation-percent), so that    *)
(* the f64 arithmetic of the source is exact on the inputs used here.      *)
(* A ratio is the exact fraction <<numerator, denominator>>; a target      *)
(* ratio is given in thousandths.  None (-1) is Rust's Option::None.       *)
(***************************************************************************)
EXTENDS Integers, Sequences, FiniteSets, TLC

\* ------------------------------------------------------------------ bounds
MaxTime == 10
MaxCmds == 3

\* the driven session: the length of its run in seconds, and the number of
\* announces of a session the tracker answers freely (it answers every
\* later one with the session's current interval)
DrivenMaxTime == 305
MaxVaried == 3

\* how far beyond the capacity of a channel a subscriber is followed
MaxOver == 2

\* ------------------------------------------------------- program constants
update_interval == 5
save_interval == 30
default_announce_interval == 1800
HistoryCap == 60

None == -1

IDs == {"s1"}

Torrents ==
  { [info_hash |-> "h1", total_size |-> 10240],
    [info_hash |-> "h2", total_size |-> 10240] }

\* a FakerConfig of a seeder: the torrent is complete, 1 KiB/s up, no
\* randomisation, no stop target, no progressive rates
BaseConfig ==
  [ upload_rate |-> 1, download_rate |-> 0, port |-> 6881,
    initial_uploaded |-> 0, initial_downloaded |-> 0,
    completion_percent |-> 100,
    randomize_rates |-> FALSE, random_range_percent |-> 20,
    stop_at_ratio |-> None, stop_at_uploaded |-> None,
    stop_at_downloaded |-> None, stop_at_seed_time |-> None,
    stop_when_no_leechers |-> FALSE,
    progressive_rates |-> FALSE,
    target_upload_rate |-> None, target_download_rate |-> None,
    progressive_duration |-> 3600 ]

\* the configurations a caller submits: a seeder, a leecher that starts half
\* complete (and completes within one driver period), and a seeder with a
\* session-upload stop target that one driver period reaches
Configs ==
  { BaseConfig,
    [BaseConfig EXCEPT !.download_rate = 1, !.completion_percent = 50],
    [BaseConfig EXCEPT !.stop_at_uploaded = 5120] }

\* what the tracker answers to one announce: an error (tracker failure,
\* HTTP error, timeout) or a response carrying an interval and, optionally,
\* a tracker id
Failure == [ok |-> FALSE, interval |-> 0, tracker_id |-> None]
Answer(interval, tracker_id) ==
  [ok |-> TRUE, interval |-> interval, tracker_id |-> tracker_id]

Intervals == {5, 10}
Responses == {Failure} \cup {Answer(i, None) : i \in Intervals}

\* values of rng.random::<f64>() in percent of the unit interval
Draws == {0, 50}

\* the draws a tick of faker f makes: none is made with randomisation off
DrawsOf(f) == IF f.config.randomize_rates THEN Draws ELSE {0}

\* the sessions and the concurrent tasks of the locking model: the
\* background_update_loop of s1, a get_stats(s1) request, a list_instances
\* request and a start_instance(s2) request
LockIDs == {"s1", "s2"}
Tasks == {"driver", "get_stats", "list_instances", "start_instance"}

\* the two broadcast channels of AppState and the SSE clients listening
Channels == {"log", "instance"}
Subscribers == {"ui1", "ui2"}

VARIABLES
  now,        \* Instant::now(), seconds
  instances,  \* AppState.instances: id -> FakerInstance
  drivers,    \* the spawned background_update_loop task of each id
  persisted,  \* the document last written by save_state
  announces,  \* per id, the announces its current RatioFaker has sent, in order
  last_op,    \* the operation that produced the current state
  ncmd,       \* number of supervisor commands issued so far
  pc,             \* per task, the await point it has reached
  faker_lock,     \* per id, the task holding the write guard of its
                  \* Arc<RwLock<RatioFaker>>, or "none"
  instances_lock, \* the tasks holding a read guard of AppState.instances
  sse,            \* the channel the SSE clients are subscribed to, or "none"
  behind,         \* per subscriber, the number of events sent on the channel
                  \* that its Receiver has not yet passed
  open,           \* per subscriber, whether its SSE stream is still open
  arg,            \* the function under call and its arguments
  ret,            \* what the call returned
  cli,            \* the session of run_json_mode: its RatioFaker's identifiers,
                  \* the announce requests sent, the events written
  cancel,         \* a driver and the command that cancels it: the await
                  \* points of both, the shutdown channel, the two timers
  logger          \* INSTANCE_CONTEXT of each runtime thread, the await point
                  \* of each command in progress, the log lines written

vars == <<now, instances, drivers, persisted, announces, last_op, ncmd,
          pc, faker_lock, instances_lock, sse, behind, open, arg, ret, cli,
          cancel, logger>>

\* the call of a function of the library or of the command line runner, and
\* the cancellation of a driver
calls == <<arg, ret, cli, cancel, logger>>

\* no function is under call; a call that has not returned
NoCall == [fn |-> "none"]

\* no session of the command line runner
NoSession ==
  [step |-> "none", peer_id |-> <<>>, key |-> <<>>, tracker_id |-> <<>>,
   periodic |-> 0, completed |-> FALSE, sent |-> <<>>, events |-> <<>>]
Pending == [done |-> FALSE]

\* a driver asleep in its select, no command under way
NoCancel ==
  [driver |-> "select", wake |-> update_interval, rx |-> "empty", state |-> "Running",
   command |-> "none", at |-> "idle", deadline |-> 0]

\* the runtime threads and the instances of the desktop application
Workers == {"w1", "w2"}
InstanceIds == {1, 2}

\* no context set on any thread, no command in progress, nothing logged
NoLogger ==
  [context |-> [thread \in Workers |-> <<>>],
   at |-> [instance_id \in InstanceIds |-> "idle"],
   lines |-> {}]

\* the state of the SSE streams
streams == <<sse, behind, open>>

\* the lock state; an operation that runs to completion within one step
\* leaves every lock as it found it
locks == <<pc, faker_lock, instances_lock>>

Min(a, b) == IF a <= b THEN a ELSE b

\* a cast that lets a negative quotient through
AsSigned(n, d) == n \div d

\* Rust's saturating float-to-u64 cast of a quotient n/d (d > 0)
AsU64(n, d) == IF n <= 0 THEN 0 ELSE n \div d

\* Vec::push followed by remove(0) when longer than 60
PushHistory(h, x) ==
  LET h1 == Append(h, x)
  IN  IF Len(h1) > HistoryCap THEN Tail(h1) ELSE h1

\* ---------------------------------------------------------------- RatioFaker

\* RatioFaker::new
RatioFaker_new(torrent, config) ==
  LET pct        == IF config.completion_percent < 0 THEN 0
                    ELSE Min(config.completion_percent, 100)
      downloaded == config.initial_downloaded + (torrent.total_size * pct) \div 100
      left       == IF torrent.total_size >= downloaded
                    THEN torrent.total_size - downloaded ELSE 0
  IN  [ torrent |-> torrent,
        config |-> config,
        state |-> "Idle",
        tracker_id |-> None,
        start_time |-> now,
        last_update |-> now,
        announce_interval |-> default_announce_interval,
        stats |->
          [ uploaded |-> config.initial_uploaded,
            downloaded |-> downloaded,
            left |-> left,
            ratio |-> IF downloaded > 0
                      THEN <<config.initial_uploaded, downloaded>> ELSE <<0, 1>>,
            elapsed_time |-> 0,
            state |-> "Idle",
            last_announce |-> None,
            next_announce |-> None,
            session_uploaded |-> 0,
            session_downloaded |-> 0,
            current_upload_rate |-> 0,
            current_download_rate |-> 0,
            upload_rate_history |-> <<>>,
            download_rate_history |-> <<>>,
            ratio_history |-> <<>> ] ]

\* RatioFaker::announce: the request built from the stats and the stored
\* tracker id, with its outcome ok and the tracker's answer resp as far
\* as a caller reads it (stop drops the answer to "stopped" unread, so its
\* interval is not recorded).
\* The result of every operation below is [faker, sent, ok]: the object
\* after the call, the announces it sent, and whether it returned Ok.
announce(f, event, resp) ==
  [ event |-> event, ok |-> resp.ok, t |-> now,
    uploaded |-> f.stats.uploaded, left |-> f.stats.left,
    tracker_id |-> f.tracker_id,
    resp |-> IF event = "stopped" THEN [resp EXCEPT !.interval = 0] ELSE resp ]

\* RatioFaker::start
start(f, resp) ==
  LET f1 == [f EXCEPT !.state = "Running", !.start_time = now, !.last_update = now]
      a  == announce(f1, "started", resp)
  IN  IF ~resp.ok
      THEN [faker |-> f1, sent |-> <<a>>, ok |-> FALSE]
      ELSE [faker |-> [f1 EXCEPT !.announce_interval = resp.interval,
                                 !.tracker_id = resp.tracker_id,
                                 !.stats.state = "Running",
                                 !.stats.last_announce = now,
                                 !.stats.next_announce = now + resp.interval],
            sent |-> <<a>>, ok |-> TRUE]

\* RatioFaker::stop
stop(f, resp) ==
  LET a == announce(f, "stopped", resp)
  IN  IF ~resp.ok
      THEN [faker |-> f, sent |-> <<a>>, ok |-> FALSE]
      ELSE [faker |-> [f EXCEPT !.state = "Stopped", !.stats.state = "Stopped"],
            sent |-> <<a>>, ok |-> TRUE]

\* RatioFaker::pause
pause(f) ==
  [faker |-> [f EXCEPT !.state = "Paused", !.stats.state = "Paused"],
   sent |-> <<>>, ok |-> TRUE]

\* RatioFaker::resume
resume(f) ==
  [faker |-> [f EXCEPT !.state = "Running", !.stats.state = "Running",
                       !.last_update = now],
   sent |-> <<>>, ok |-> TRUE]

\* RatioFaker::periodic_announce
periodic_announce(f, resp) ==
  LET a == announce(f, "none", resp)
  IN  IF ~resp.ok
      THEN [faker |-> f, sent |-> <<a>>, ok |-> FALSE]
      ELSE [faker |-> [f EXCEPT !.announce_interval = resp.interval,
                                !.stats.last_announce = now,
                                !.stats.next_announce = now + resp.interval],
            sent |-> <<a>>, ok |-> TRUE]

\* RatioFaker::on_completed
on_completed(f, resp) ==
  LET a == announce(f, "completed", resp)
  IN  IF ~resp.ok
      THEN [faker |-> f, sent |-> <<a>>, ok |-> FALSE]
      ELSE [faker |-> [f EXCEPT !.state = "Completed", !.stats.state = "Completed"],
            sent |-> <<a>>, ok |-> TRUE]

\* RatioFaker::check_stop_conditions
check_stop_conditions(f) ==
  LET c == f.config
      s == f.stats
  IN  \/ /\ c.stop_at_ratio # None
         /\ s.ratio[1] * 1000 >= (c.stop_at_ratio - 1) * s.ratio[2]
      \/ /\ c.stop_at_uploaded # None
         /\ s.session_uploaded >= c.stop_at_uploaded
      \/ /\ c.stop_at_downloaded # None
         /\ s.session_downloaded >= c.stop_at_downloaded
      \/ /\ c.stop_at_seed_time # None
         /\ s.elapsed_time >= c.stop_at_seed_time

\* a calculate_progressive_rate that interpolates without the cap
calculate_progressive_rate_uncapped(start_rate, target_rate, elapsed_secs, duration_secs) ==
  IF duration_secs = 0
  THEN start_rate * 100
  ELSE start_rate * 100
         + ((target_rate - start_rate) * 100 * elapsed_secs) \div duration_secs

\* RatioFaker::calculate_progressive_rate, in hundredths of a KiB/s
calculate_progressive_rate(start_rate, target_rate, elapsed_secs, duration_secs) ==
  IF elapsed_secs >= duration_secs
  THEN target_rate * 100
  ELSE start_rate * 100
         + ((target_rate - start_rate) * 100 * elapsed_secs) \div duration_secs

\* the base rate of one axis (update, "Calculate progressive rates if enabled")
base_rate(f, rate, target) ==
  IF f.config.progressive_rates
  THEN calculate_progressive_rate(rate, IF target = None THEN rate ELSE target,
                                  f.stats.elapsed_time, f.config.progressive_duration)
  ELSE rate * 100

\* the multiplier 1 + (random * 2 * range - range), in percent
\* (update, "Apply randomization if enabled")
variation(f, draw) ==
  IF f.config.randomize_rates
  THEN 100 + (draw * 2 * f.config.random_range_percent) \div 100
           - f.config.random_range_percent
  ELSE 100

\* update, from "let now = Instant::now()" to the decrement of left: the
\* rates of this tick, the two rate rings and the byte counters
advance_counters(f, du, dd) ==
  LET elapsed        == now - f.last_update
      upload_rate    == base_rate(f, f.config.upload_rate, f.config.target_upload_rate)
                          * variation(f, du)
      download_rate  == base_rate(f, f.config.download_rate, f.config.target_download_rate)
                          * variation(f, dd)
      upload_delta   == AsU64(upload_rate * 1024 * elapsed, 10000)
      download_delta == AsU64(download_rate * 1024 * elapsed, 10000)
      actual         == IF f.stats.left > 0 THEN Min(download_delta, f.stats.left) ELSE 0
  IN  [f EXCEPT
        !.last_update = now,
        !.stats.current_upload_rate = upload_rate,
        !.stats.current_download_rate = download_rate,
        !.stats.upload_rate_history = PushHistory(@, upload_rate),
        !.stats.download_rate_history = PushHistory(@, download_rate),
        !.stats.uploaded = @ + upload_delta,
        !.stats.session_uploaded = @ + upload_delta,
        !.stats.downloaded = @ + actual,
        !.stats.session_downloaded = @ + actual,
        !.stats.left = @ - actual]

\* update, from "Update ratio" to "Update elapsed time"
refresh_ratio(f) ==
  LET current_ratio == IF f.torrent.total_size > 0
                       THEN <<f.stats.uploaded, f.torrent.total_size>> ELSE <<0, 1>>
  IN  [f EXCEPT
        !.stats.ratio = current_ratio,
        !.stats.ratio_history = PushHistory(@, current_ratio),
        !.stats.elapsed_time = now - f.start_time]

\* update, from "Check if completed" to "Check stop conditions", given the
\* faker f the tick began with and the faker a its counters advanced to.
\* "more" tells that the tick went on past the stop check without returning.
after_counters(f, a, rc, rs) ==
  LET c == IF f.stats.left > 0 /\ a.stats.left = 0
           THEN on_completed(a, rc)
           ELSE [faker |-> a, sent |-> <<>>, ok |-> TRUE]
      g == refresh_ratio(c.faker)
      s == stop(g, rs)
  IN  IF ~c.ok
      THEN [faker |-> c.faker, sent |-> c.sent, ok |-> FALSE, more |-> FALSE]
      ELSE IF check_stop_conditions(g)
      THEN [faker |-> s.faker, sent |-> c.sent \o s.sent, ok |-> s.ok, more |-> FALSE]
      ELSE [faker |-> g, sent |-> c.sent, ok |-> TRUE, more |-> TRUE]

\* the part update and update_stats_only share: counters, completion,
\* ratio, stop conditions
tick_body(f, rc, rs, du, dd) ==
  after_counters(f, advance_counters(f, du, dd), rc, rs)

\* a periodic announce that waits until next_announce has passed
announce_if_due_late(b, rs) ==
  LET p == periodic_announce(b.faker, rs)
  IN  IF b.more /\ b.faker.stats.next_announce # None
                /\ now > b.faker.stats.next_announce
      THEN [faker |-> p.faker, sent |-> b.sent \o p.sent, ok |-> p.ok]
      ELSE [faker |-> b.faker, sent |-> b.sent, ok |-> b.ok]

\* update, "Check if we need to announce", after the shared part returned b
announce_if_due(b, rs) ==
  LET p == periodic_announce(b.faker, rs)
  IN  IF b.more /\ b.faker.stats.next_announce # None
                /\ now >= b.faker.stats.next_announce
      THEN [faker |-> p.faker, sent |-> b.sent \o p.sent, ok |-> p.ok]
      ELSE [faker |-> b.faker, sent |-> b.sent, ok |-> b.ok]

\* RatioFaker::update.  rc answers a completed announce, rs a stopped or
\* periodic one; du and dd are the two random draws.
update(f, rc, rs, du, dd) ==
  announce_if_due(tick_body(f, rc, rs, du, dd), rs)

\* RatioFaker::update_stats_only
update_stats_only(f, rc, rs, du, dd) ==
  LET b == tick_body(f, rc, rs, du, dd)
  IN  [faker |-> b.faker, sent |-> b.sent, ok |-> b.ok]

\* RatioFaker::get_stats
get_stats(f) == f.stats

\* the stop condition check_stop_conditions returns true for: the first
\* that holds in its order of evaluation, "None" when it returns false
fired_condition(f) ==
  LET c == f.config
      s == f.stats
  IN  IF /\ c.stop_at_ratio # None
         /\ s.ratio[1] * 1000 >= (c.stop_at_ratio - 1) * s.ratio[2]
      THEN "TargetRatio"
      ELSE IF c.stop_at_uploaded # None /\ s.session_uploaded >= c.stop_at_uploaded
      THEN "TargetUploaded"
      ELSE IF c.stop_at_downloaded # None /\ s.session_downloaded >= c.stop_at_downloaded
      THEN "TargetDownloaded"
      ELSE IF c.stop_at_seed_time # None /\ s.elapsed_time >= c.stop_at_seed_time
      THEN "TargetSeedTime"
      ELSE "None"

\* ----------------------------------------------------------------- the CLI
\* FakerStats.session_ratio, read by the CLI:
\* session_uploaded / max(session_downloaded, 1), as a fraction
session_ratio(s) ==
  <<s.session_uploaded, IF s.session_downloaded > 1 THEN s.session_downloaded ELSE 1>>

\* runner.rs determine_stop_reason, on the thresholds create_faker_config
\* hands to the engine.  The configurations used here leave
\* stop_when_no_leechers off, so the tracker's leecher count is not read.
determine_stop_reason(c, s) ==
  IF /\ c.stop_at_ratio # None
     /\ session_ratio(s)[1] * 1000 >= (c.stop_at_ratio - 1) * session_ratio(s)[2]
  THEN "TargetRatio"
  ELSE IF c.stop_at_uploaded # None /\ s.session_uploaded >= c.stop_at_uploaded
  THEN "TargetUploaded"
  ELSE IF c.stop_at_downloaded # None /\ s.session_downloaded >= c.stop_at_downloaded
  THEN "TargetDownloaded"
  ELSE IF c.stop_at_seed_time # None /\ s.elapsed_time >= c.stop_at_seed_time
  THEN "TargetSeedTime"
  ELSE IF c.stop_when_no_leechers /\ s.leechers = 0 /\ s.announce_count > 0
  THEN "NoLeechers"
  ELSE "UserInterrupt"

\* ------------------------------------------------------------------ AppState
\* The supervisor's operations are functions of the world
\* w = [instances, drivers, persisted, announces] and return [w, ok].

World ==
  [instances |-> instances, drivers |-> drivers,
   persisted |-> persisted, announces |-> announces]

NoDriver == [alive |-> FALSE, wake |-> 0, last_save |-> 0]

\* AppState::save_state: one PersistedInstance per registry entry
save_state(w) ==
  [w EXCEPT !.persisted =
     [id \in DOMAIN w.instances |->
        LET instance == w.instances[id]
            stats    == get_stats(instance.faker)
        IN  [ torrent |-> instance.torrent,
              config |-> instance.config,
              cumulative_uploaded |-> stats.uploaded,
              cumulative_downloaded |-> stats.downloaded,
              state |-> stats.state,
              source |-> instance.source ]]]

\* the shutdown signal reaches the driver of id (tx.send(()), or the sender
\* dropped with its instance) or its task is aborted: its loop ends
end_driver(w, id) == [w EXCEPT !.drivers[id].alive = FALSE]

\* tokio::spawn(background_update_loop(..)): the first tick is one
\* update_interval away
spawn_driver(w, id) ==
  [w EXCEPT !.drivers[id] =
     [alive |-> TRUE, wake |-> now + update_interval, last_save |-> now]]

\* the faker object of id after one of its methods returned r
commit(w, id, r) ==
  [w EXCEPT !.instances[id].faker = r.faker,
            !.announces[id] = @ \o r.sent]

\* HashMap::insert
insert(m, id, v) == [i \in DOMAIN m \cup {id} |-> IF i = id THEN v ELSE m[i]]

\* create_instance_internal without the info-hash comparison: the counters
\* of whatever instance held the id are inherited
create_instance_internal_nohash(w, id, torrent, config, source) ==
  LET exists   == id \in DOMAIN w.instances
      existing == w.instances[id]
      same     == exists
      cumulative_uploaded   == IF same THEN existing.cumulative_uploaded ELSE 0
      cumulative_downloaded == IF same THEN existing.cumulative_downloaded ELSE 0
      final_source == IF same THEN existing.source ELSE source
      faker_config == [config EXCEPT !.initial_uploaded = cumulative_uploaded,
                                     !.initial_downloaded = cumulative_downloaded]
      instance ==
        [ faker |-> RatioFaker_new(torrent, faker_config),
          torrent |-> torrent,
          config |-> config,
          torrent_info_hash |-> torrent.info_hash,
          cumulative_uploaded |-> cumulative_uploaded,
          cumulative_downloaded |-> cumulative_downloaded,
          source |-> final_source,
          task_handle |-> FALSE,
          shutdown_tx |-> FALSE ]
      w1 == IF exists /\ existing.shutdown_tx THEN end_driver(w, id) ELSE w
  IN  [w |-> save_state([w1 EXCEPT !.instances = insert(@, id, instance),
                                    !.announces[id] = <<>>]),
       ok |-> TRUE]

\* AppState::create_instance_internal
create_instance_internal(w, id, torrent, config, source) ==
  LET exists   == id \in DOMAIN w.instances
      existing == w.instances[id]
      same     == exists /\ existing.torrent_info_hash = torrent.info_hash
      cumulative_uploaded   == IF same THEN existing.cumulative_uploaded ELSE 0
      cumulative_downloaded == IF same THEN existing.cumulative_downloaded ELSE 0
      final_source == IF same THEN existing.source ELSE source
      faker_config == [config EXCEPT !.initial_uploaded = cumulative_uploaded,
                                     !.initial_downloaded = cumulative_downloaded]
      instance ==
        [ faker |-> RatioFaker_new(torrent, faker_config),
          torrent |-> torrent,
          config |-> config,
          torrent_info_hash |-> torrent.info_hash,
          cumulative_uploaded |-> cumulative_uploaded,
          cumulative_downloaded |-> cumulative_downloaded,
          source |-> final_source,
          task_handle |-> FALSE,
          shutdown_tx |-> FALSE ]
      w1 == IF exists /\ existing.shutdown_tx THEN end_driver(w, id) ELSE w
  IN  [w |-> save_state([w1 EXCEPT !.instances = insert(@, id, instance),
                                    !.announces[id] = <<>>]),
       ok |-> TRUE]

\* AppState::update_instance_config
update_instance_config(w, id, config) ==
  LET instance     == w.instances[id]
      faker_config == [config EXCEPT
                         !.initial_uploaded = instance.cumulative_uploaded,
                         !.initial_downloaded = instance.cumulative_downloaded]
  IN  [w |-> [w EXCEPT !.instances[id].faker =
                          RatioFaker_new(instance.torrent, faker_config),
                       !.instances[id].config = config,
                       !.announces[id] = <<>>],
       ok |-> TRUE]

\* AppState::start_instance
start_instance(w, id, resp) ==
  LET w1 == [end_driver(w, id) EXCEPT !.instances[id].shutdown_tx = FALSE,
                                      !.instances[id].task_handle = FALSE]
      r  == start(w1.instances[id].faker, resp)
      w2 == commit(w1, id, r)
      w3 == [spawn_driver(w2, id) EXCEPT !.instances[id].shutdown_tx = TRUE,
                                         !.instances[id].task_handle = TRUE]
  IN  IF ~r.ok THEN [w |-> w2, ok |-> FALSE]
      ELSE [w |-> save_state(w3), ok |-> TRUE]

\* AppState::stop_instance
stop_instance(w, id, resp) ==
  LET w1    == [end_driver(w, id) EXCEPT !.instances[id].shutdown_tx = FALSE,
                                         !.instances[id].task_handle = FALSE]
      stats == get_stats(w1.instances[id].faker)
      r     == stop(w1.instances[id].faker, resp)
      w2    == commit(w1, id, r)
      w3    == [w2 EXCEPT !.instances[id].cumulative_uploaded = stats.uploaded,
                          !.instances[id].cumulative_downloaded = stats.downloaded]
  IN  IF ~r.ok THEN [w |-> w2, ok |-> FALSE]
      ELSE [w |-> save_state(w3), ok |-> TRUE]

\* AppState::pause_instance
pause_instance(w, id) ==
  LET w1 == [end_driver(w, id) EXCEPT !.instances[id].shutdown_tx = FALSE,
                                      !.instances[id].task_handle = FALSE]
      r  == pause(w1.instances[id].faker)
  IN  [w |-> save_state(commit(w1, id, r)), ok |-> TRUE]

\* AppState::resume_instance
resume_instance(w, id) ==
  LET w1 == [end_driver(w, id) EXCEPT !.instances[id].shutdown_tx = FALSE,
                                      !.instances[id].task_handle = FALSE]
      r  == resume(w1.instances[id].faker)
      w2 == commit(w1, id, r)
      w3 == [spawn_driver(w2, id) EXCEPT !.instances[id].shutdown_tx = TRUE,
                                         !.instances[id].task_handle = TRUE]
  IN  [w |-> save_state(w3), ok |-> TRUE]

\* AppState::update_instance
update_instance(w, id, rc, rs, du, dd) ==
  LET r == update(w.instances[id].faker, rc, rs, du, dd)
  IN  [w |-> commit(w, id, r), ok |-> r.ok]

\* AppState::update_stats_only
AppState_update_stats_only(w, id, rc, rs, du, dd) ==
  LET r == update_stats_only(w.instances[id].faker, rc, rs, du, dd)
  IN  [w |-> commit(w, id, r), ok |-> r.ok]

\* api.rs start_faker: (re)configure the instance, then start it
start_faker(w, id, torrent, config, resp) ==
  LET c == IF id \in DOMAIN w.instances
           THEN update_instance_config(w, id, config)
           ELSE create_instance_internal(w, id, torrent, config, "Manual")
  IN  start_instance(c.w, id, resp)

\* background_update_loop leaving its loop when update returns an error
background_update_loop_bail(w, id, rc, rs, du, dd) ==
  LET should_continue ==
        /\ id \in DOMAIN w.instances
        /\ get_stats(w.instances[id].faker).state = "Running"
      r  == update(w.instances[id].faker, rc, rs, du, dd)
      w1 == [commit(w, id, r) EXCEPT !.drivers[id].wake = now + update_interval]
  IN  IF ~should_continue THEN [w |-> end_driver(w, id), ok |-> TRUE]
      ELSE IF ~r.ok THEN [w |-> end_driver(w1, id), ok |-> FALSE]
      ELSE [w |-> w1, ok |-> TRUE]

\* one turn of AppState::background_update_loop after its sleep: leave the
\* loop unless the instance exists and its stats say Running, else tick it
\* and save every save_interval
background_update_loop(w, id, rc, rs, du, dd) ==
  LET should_continue ==
        /\ id \in DOMAIN w.instances
        /\ get_stats(w.instances[id].faker).state = "Running"
      r  == update(w.instances[id].faker, rc, rs, du, dd)
      w1 == [commit(w, id, r) EXCEPT !.drivers[id].wake = now + update_interval]
      w2 == [save_state(w1) EXCEPT !.drivers[id].last_save = now]
  IN  IF ~should_continue THEN [w |-> end_driver(w, id), ok |-> TRUE]
      ELSE IF now - w.drivers[id].last_save >= save_interval
      THEN [w |-> w2, ok |-> r.ok]
      ELSE [w |-> w1, ok |-> r.ok]

\* ------------------------------------------------------------------- actions

Init ==
  /\ now = 0
  /\ instances = << >>
  /\ drivers = [id \in IDs |-> NoDriver]
  /\ persisted = << >>
  /\ announces = [id \in IDs |-> <<>>]
  /\ last_op = [name |-> "new", id |-> "", ok |-> TRUE]
  /\ ncmd = 0
  /\ pc = [task \in Tasks |-> "begin"]
  /\ faker_lock = [id \in LockIDs |-> "none"]
  /\ instances_lock = {}
  /\ sse = "none"
  /\ behind = [s \in Subscribers |-> 0]
  /\ open = [s \in Subscribers |-> TRUE]
  /\ arg = NoCall
  /\ ret = Pending
  /\ cli = NoSession
  /\ cancel = NoCancel
  /\ logger = NoLogger

\* the state after an operation returned r
Returns(r, name, id) ==
  /\ instances' = r.w.instances
  /\ drivers' = r.w.drivers
  /\ persisted' = r.w.persisted
  /\ announces' = r.w.announces
  /\ last_op' = [name |-> name, id |-> id, ok |-> r.ok]
  /\ UNCHANGED <<now, locks, streams, calls>>

\* a command of the API: at most MaxCmds of them are issued
Command(r, name, id) ==
  /\ ncmd < MaxCmds
  /\ ncmd' = ncmd + 1
  /\ Returns(r, name, id)

CreateInstance(id) ==
  \E torrent \in Torrents, config \in Configs :
    Command(create_instance_internal(World, id, torrent, config, "Manual"),
            "create_instance", id)

StartFaker(id) ==
  \E torrent \in Torrents, config \in Configs, resp \in Responses :
    Command(start_faker(World, id, torrent, config, resp), "start_faker", id)

StartInstance(id) ==
  /\ id \in DOMAIN instances
  /\ \E resp \in Responses :
       Command(start_instance(World, id, resp), "start_instance", id)

StopInstance(id) ==
  /\ id \in DOMAIN instances
  /\ \E resp \in Responses :
       Command(stop_instance(World, id, resp), "stop_instance", id)

PauseInstance(id) ==
  /\ id \in DOMAIN instances
  /\ Command(pause_instance(World, id), "pause_instance", id)

ResumeInstance(id) ==
  /\ id \in DOMAIN instances
  /\ Command(resume_instance(World, id), "resume_instance", id)

UpdateInstance(id) ==
  /\ id \in DOMAIN instances
  /\ \E rc \in Responses, rs \in Responses,
        du \in DrawsOf(instances[id].faker), dd \in DrawsOf(instances[id].faker) :
       Command(update_instance(World, id, rc, rs, du, dd), "update_instance", id)

UpdateStatsOnly(id) ==
  /\ id \in DOMAIN instances
  /\ \E rc \in Responses, rs \in Responses,
        du \in DrawsOf(instances[id].faker), dd \in DrawsOf(instances[id].faker) :
       Command(AppState_update_stats_only(World, id, rc, rs, du, dd),
               "update_stats_only", id)

\* the driver of id wakes from tokio::time::sleep(update_interval)
DriverWake(id) ==
  /\ drivers[id].alive
  /\ now >= drivers[id].wake
  /\ \E rc \in Responses, rs \in Responses, du \in Draws, dd \in Draws :
       /\ id \in DOMAIN instances => du \in DrawsOf(instances[id].faker)
                                    /\ dd \in DrawsOf(instances[id].faker)
       /\ Returns(background_update_loop(World, id, rc, rs, du, dd), "driver", id)
  /\ UNCHANGED ncmd

\* wall-clock time passes, one driver period at a time; a driver that is
\* due runs before the clock moves on
Advance ==
  /\ now + update_interval <= MaxTime
  /\ \A id \in IDs : ~(drivers[id].alive /\ now >= drivers[id].wake)
  /\ now' = now + update_interval
  /\ last_op' = [name |-> "advance", id |-> "", ok |-> TRUE]
  /\ UNCHANGED <<instances, drivers, persisted, announces, ncmd, locks, streams,
                 calls>>

Next ==
  \/ \E id \in IDs : CreateInstance(id)
  \/ \E id \in IDs : StartFaker(id)
  \/ \E id \in IDs : StartInstance(id)
  \/ \E id \in IDs : ResumeInstance(id)
  \/ \E id \in IDs : PauseInstance(id)
  \/ \E id \in IDs : StopInstance(id)
  \/ \E id \in IDs : DriverWake(id)
  \/ \E id \in IDs : UpdateInstance(id)
  \/ \E id \in IDs : UpdateStatsOnly(id)
  \/ Advance

Spec == Init /\ [][Next]_vars

\* ------------------------------------------------------- the driven session
\* One session that is started once and from then on only ticked by its
\* background_update_loop, for DrivenMaxTime seconds.

DrivenTorrent == [info_hash |-> "h1", total_size |-> 10240]

\* a seeder without stop target; a seeder that stops at ratio 1.0; a
\* leecher (half complete) that stops at ratio 2.0; a seeder with a ratio
\* target of 2.0 and a session-upload target of 5120 bytes; a seeder with
\* a jitter range of 200 % that stops after 15 s
DrivenConfigs ==
  { BaseConfig,
    [BaseConfig EXCEPT !.stop_at_ratio = 1000],
    [BaseConfig EXCEPT !.download_rate = 1, !.completion_percent = 50,
                       !.stop_at_ratio = 2000],
    [BaseConfig EXCEPT !.stop_at_ratio = 2000, !.stop_at_uploaded = 5120],
    [BaseConfig EXCEPT !.randomize_rates = TRUE, !.random_range_percent = 200,
                       !.stop_at_seed_time = 15] }

DrivenIntervals == {10, 60}
\* the tracker id of an answer: absent, or the id numbered 1
TrackerIds == {None, 1}
DrivenResponses ==
  {Failure} \cup {Answer(i, t) : i \in DrivenIntervals, t \in TrackerIds}

\* the answers the tracker may give to the next announce of id
TrackerAnswers(id) ==
  IF Len(announces[id]) < MaxVaried THEN DrivenResponses
  ELSE {Answer(instances[id].faker.announce_interval, None)}

\* the session is started as soon as the server is up
DrivenStart(id) ==
  /\ ncmd = 0
  /\ now = 0
  /\ ncmd' = 1
  /\ \E config \in DrivenConfigs, resp \in TrackerAnswers(id) :
       Returns(start_faker(World, id, DrivenTorrent, config, resp),
               "start_faker", id)

DrivenWake(id) ==
  /\ drivers[id].alive
  /\ now >= drivers[id].wake
  /\ \E rc \in TrackerAnswers(id), rs \in TrackerAnswers(id),
        du \in DrawsOf(instances[id].faker), dd \in DrawsOf(instances[id].faker) :
       Returns(background_update_loop(World, id, rc, rs, du, dd), "driver", id)
  /\ UNCHANGED ncmd

DrivenAdvance ==
  /\ ncmd = 1
  /\ now + update_interval <= DrivenMaxTime
  /\ \A id \in IDs : ~(drivers[id].alive /\ now >= drivers[id].wake)
  /\ now' = now + update_interval
  /\ last_op' = [name |-> "advance", id |-> "", ok |-> TRUE]
  /\ UNCHANGED <<instances, drivers, persisted, announces, ncmd, locks, streams,
                 calls>>

DrivenNext ==
  \/ \E id \in IDs : DrivenStart(id)
  \/ \E id \in IDs : DrivenWake(id)
  \/ DrivenAdvance

\* timers fire and the spawned task is scheduled: a step that can be taken
\* is taken
Driven == Init /\ [][DrivenNext]_vars /\ WF_vars(DrivenNext)

\* ------------------------------------------------------------------ locking
\* The await points of four concurrent tasks and the two tokio RwLocks they
\* contend for.  A guard that is taken and dropped with no await point in
\* between is taken and dropped within one step; the stats lock inside the
\* RatioFaker is dropped before every announce (faker.rs:685) and is only
\* reached through the faker lock, so it is not a variable.  A task leaves
\* "http" when the tracker's answer (or its error, or the timeout) arrives.

data == <<now, instances, drivers, persisted, announces, last_op, ncmd,
          sse, behind, open, arg, ret, cli, cancel, logger>>

Goto(task, position) == pc' = [pc EXCEPT ![task] = position]

\* background_update_loop: the sleep ends, instances.read() is taken
DriverWakes ==
  /\ pc["driver"] = "begin"
  /\ instances_lock' = instances_lock \cup {"driver"}
  /\ Goto("driver", "should_continue")
  /\ UNCHANGED <<faker_lock, data>>

\* instance.faker.read().await.get_stats() under the instances guard
DriverChecks ==
  /\ pc["driver"] = "should_continue"
  /\ faker_lock["s1"] = "none"
  /\ instances_lock' = instances_lock \ {"driver"}
  /\ Goto("driver", "write")
  /\ UNCHANGED <<faker_lock, data>>

\* faker.write().await: the guard lives until update().await has returned
DriverLocks ==
  /\ pc["driver"] = "write"
  /\ faker_lock["s1"] = "none"
  /\ faker_lock' = [faker_lock EXCEPT !["s1"] = "driver"]
  /\ Goto("driver", "update")
  /\ UNCHANGED <<instances_lock, data>>

\* update reaches an announce (completed, stopped or periodic)
DriverAnnounces ==
  /\ pc["driver"] = "update"
  /\ Goto("driver", "http")
  /\ UNCHANGED <<faker_lock, instances_lock, data>>

\* update returns, with or without an announce: the write guard is dropped
DriverReturns ==
  /\ pc["driver"] \in {"update", "http"}
  /\ faker_lock' = [faker_lock EXCEPT !["s1"] = "none"]
  /\ Goto("driver", "begin")
  /\ UNCHANGED <<instances_lock, data>>

\* AppState::get_stats: the Arc is cloned out under instances.read()
GetStatsClones ==
  /\ pc["get_stats"] = "begin"
  /\ Goto("get_stats", "read")
  /\ UNCHANGED <<faker_lock, instances_lock, data>>

\* faker_arc.read().await.get_stats()
GetStatsReads ==
  /\ pc["get_stats"] = "read"
  /\ faker_lock["s1"] = "none"
  /\ Goto("get_stats", "begin")
  /\ UNCHANGED <<faker_lock, instances_lock, data>>

\* AppState::list_instances: instances.read() is held over the whole loop
ListBegins ==
  /\ pc["list_instances"] = "begin"
  /\ instances_lock' = instances_lock \cup {"list_instances"}
  /\ Goto("list_instances", "s1")
  /\ UNCHANGED <<faker_lock, data>>

\* instance.faker.read().await.get_stats() for one instance of the loop
ListReads(id) ==
  /\ pc["list_instances"] = id
  /\ faker_lock[id] = "none"
  /\ IF id = "s1"
     THEN Goto("list_instances", "s2") /\ UNCHANGED instances_lock
     ELSE /\ Goto("list_instances", "begin")
          /\ instances_lock' = instances_lock \ {"list_instances"}
  /\ UNCHANGED <<faker_lock, data>>

\* start_instance(s2): instances.write() to take the old task and clone
\* the Arc
StartTakes ==
  /\ pc["start_instance"] = "begin"
  /\ instances_lock = {}
  /\ Goto("start_instance", "write")
  /\ UNCHANGED <<faker_lock, instances_lock, data>>

\* faker_arc.write().await.start(): the guard lives until start().await
\* has returned; start sends its started announce at once
StartLocks ==
  /\ pc["start_instance"] = "write"
  /\ faker_lock["s2"] = "none"
  /\ faker_lock' = [faker_lock EXCEPT !["s2"] = "start_instance"]
  /\ Goto("start_instance", "http")
  /\ UNCHANGED <<instances_lock, data>>

\* start returns: the write guard is dropped
StartReturns ==
  /\ pc["start_instance"] = "http"
  /\ faker_lock' = [faker_lock EXCEPT !["s2"] = "none"]
  /\ Goto("start_instance", "store")
  /\ UNCHANGED <<instances_lock, data>>

\* instances.write() to store task_handle and shutdown_tx
StartStores ==
  /\ pc["start_instance"] = "store"
  /\ instances_lock = {}
  /\ Goto("start_instance", "save_state")
  /\ UNCHANGED <<faker_lock, instances_lock, data>>

\* save_state: instances.read() is held over the whole loop
SaveBegins ==
  /\ pc["start_instance"] = "save_state"
  /\ instances_lock' = instances_lock \cup {"start_instance"}
  /\ Goto("start_instance", "s1")
  /\ UNCHANGED <<faker_lock, data>>

\* instance.faker.read().await.get_stats() for one instance of the loop
SaveReads(id) ==
  /\ pc["start_instance"] = id
  /\ faker_lock[id] = "none"
  /\ IF id = "s1"
     THEN Goto("start_instance", "s2") /\ UNCHANGED instances_lock
     ELSE /\ Goto("start_instance", "begin")
          /\ instances_lock' = instances_lock \ {"start_instance"}
  /\ UNCHANGED <<faker_lock, data>>

LockNext ==
  \/ DriverWakes \/ DriverChecks \/ DriverLocks \/ DriverAnnounces
  \/ DriverReturns
  \/ GetStatsClones \/ GetStatsReads
  \/ ListBegins \/ \E id \in LockIDs : ListReads(id)
  \/ StartTakes \/ StartLocks \/ StartReturns \/ StartStores
  \/ SaveBegins \/ \E id \in LockIDs : SaveReads(id)

Locking == Init /\ [][LockNext]_vars

\* ------------------------------------------------------------ restart
\* The server process ends and a new one boots from the document on disk.

\* AppState::new: an empty registry; no task of the old process survives
AppState_new(saved) ==
  [instances |-> << >>, drivers |-> [id \in IDs |-> NoDriver],
   persisted |-> saved, announces |-> [id \in IDs |-> <<>>]]

\* load_saved_state, the body of its loop for one persisted instance:
\* rebuild the faker from the saved counters, insert it, and start it when
\* its saved state was Running (a failed start is only logged)
restore_instance(w, id, p, resp) ==
  LET faker_config == [p.config EXCEPT
                         !.initial_uploaded = p.cumulative_uploaded,
                         !.initial_downloaded = p.cumulative_downloaded]
      instance ==
        [ faker |-> RatioFaker_new(p.torrent, faker_config),
          torrent |-> p.torrent,
          config |-> p.config,
          torrent_info_hash |-> p.torrent.info_hash,
          cumulative_uploaded |-> p.cumulative_uploaded,
          cumulative_downloaded |-> p.cumulative_downloaded,
          source |-> p.source,
          task_handle |-> FALSE,
          shutdown_tx |-> FALSE ]
      w1 == [w EXCEPT !.instances = insert(@, id, instance)]
  IN  IF p.state = "Running" THEN start_instance(w1, id, resp).w ELSE w1

\* AppState::load_saved_state over the instances of the loaded document;
\* resps gives the tracker's answer to the started announce of each id
RECURSIVE load_saved_state(_, _, _, _)
load_saved_state(w, saved, ids, resps) ==
  IF ids = {} THEN [w |-> w, ok |-> TRUE]
  ELSE LET id == CHOOSE i \in ids : TRUE
       IN  load_saved_state(restore_instance(w, id, saved[id], resps[id]),
                            saved, ids \ {id}, resps)

\* main.rs: the process is restarted and loads the saved state
Boot ==
  /\ ncmd < MaxCmds
  /\ ncmd' = ncmd + 1
  /\ \E resps \in [IDs -> Responses] :
       Returns(load_saved_state(AppState_new(persisted), persisted,
                                DOMAIN persisted, resps),
               "load_saved_state", "")

RestartNext == Next \/ Boot

Restarting == Init /\ [][RestartNext]_vars

\* ------------------------------------------------------------- deleting
\* The registry with watch-folder instances and the delete command, next to
\* create, start, stop and the drivers.

\* HashMap::remove
remove(m, id) == [i \in DOMAIN m \ {id} |-> m[i]]

\* a delete_instance that refuses nothing
delete_instance_any(w, id, force) ==
  IF id \notin DOMAIN w.instances THEN [w |-> save_state(w), ok |-> TRUE]
  ELSE [w |-> save_state([end_driver(w, id) EXCEPT
                            !.instances = remove(w.instances, id)]),
        ok |-> TRUE]

\* AppState::delete_instance
delete_instance(w, id, force) ==
  IF /\ ~force
     /\ id \in DOMAIN w.instances
     /\ w.instances[id].source = "WatchFolder"
  THEN [w |-> w, ok |-> FALSE]
  ELSE IF id \notin DOMAIN w.instances THEN [w |-> save_state(w), ok |-> TRUE]
  ELSE [w |-> save_state([end_driver(w, id) EXCEPT
                            !.instances = remove(w.instances, id)]),
        ok |-> TRUE]

\* AppState::create_instance_with_event: an instance of the watch folder
CreateWatched(id) ==
  \E torrent \in Torrents, config \in Configs :
    Command(create_instance_internal(World, id, torrent, config, "WatchFolder"),
            "create_instance_with_event", id)

DeleteInstance(id) ==
  \E force \in BOOLEAN :
    Command(delete_instance(World, id, force),
            IF force THEN "force_delete_instance" ELSE "delete_instance", id)

DeleteNext ==
  \/ \E id \in IDs : CreateInstance(id)
  \/ \E id \in IDs : CreateWatched(id)
  \/ \E id \in IDs : StartInstance(id)
  \/ \E id \in IDs : StopInstance(id)
  \/ \E id \in IDs : DeleteInstance(id)
  \/ \E id \in IDs : DriverWake(id)
  \/ Advance

Deleting == Init /\ [][DeleteNext]_vars

\* ----------------------------------------------------------- cancelling
\* One driver (background_update_loop of s1) and one command that cancels
\* it.  A task that can run runs before the clock moves; a tracker request
\* and a wait for a lock take as long as they take.

\* the clock stops here
MaxClock == 12

\* the commands that cancel a driver
CancelCommands ==
  {"stop_instance", "pause_instance", "delete_instance", "shutdown_all"}

\* tokio::time::timeout(Duration::from_secs(..), handle)
grace(command) == IF command = "shutdown_all" THEN 5 ELSE 2

\* a receiver that never sees the signal
recv_never(rx) == FALSE

\* shutdown_rx.recv() is ready: the signal was sent, or the sender dropped
recv_ready(rx) == rx # "empty"

\* tokio::select! of the loop: the branches that are ready, of which it
\* takes any
select_ready(rx, wake) ==
  (IF recv_ready(rx) THEN {"shutdown"} ELSE {})
  \cup (IF now >= wake THEN {"sleep"} ELSE {})

CancelInit ==
  /\ now = 0
  /\ instances = << >>
  /\ drivers = [id \in IDs |-> NoDriver]
  /\ persisted = << >>
  /\ announces = [id \in IDs |-> <<>>]
  /\ last_op = [name |-> "new", id |-> "", ok |-> TRUE]
  /\ ncmd = 0
  /\ pc = [task \in Tasks |-> "begin"]
  /\ faker_lock = [id \in LockIDs |-> "none"]
  /\ instances_lock = {}
  /\ sse = "none"
  /\ behind = [s \in Subscribers |-> 0]
  /\ open = [s \in Subscribers |-> TRUE]
  /\ arg = NoCall
  /\ ret = Pending
  /\ cli = NoSession
  /\ cancel = NoCancel
  /\ logger = NoLogger

\* a step of the driver or of the command
Cancel_to(next, lock) ==
  /\ cancel' = next
  /\ faker_lock' = [faker_lock EXCEPT !["s1"] = lock]
  /\ UNCHANGED <<now, instances, drivers, persisted, announces, last_op, ncmd,
                 pc, instances_lock, streams, arg, ret, cli, logger>>

\* the command takes shutdown_tx and task_handle and sends the signal
CommandSignals ==
  /\ cancel.at = "idle"
  /\ now + 5 <= MaxClock
  /\ \E command \in CancelCommands :
       Cancel_to([cancel EXCEPT !.command = command, !.at = "wait",
                                !.rx = "signal",
                                !.deadline = now + grace(command)],
                 faker_lock["s1"])

\* timeout(grace, handle) returns: the driver has ended or the grace period
\* is over.  delete_instance then removes the entry and returns,
\* shutdown_all returns, stop and pause go on to the faker
CommandWaited ==
  /\ cancel.at = "wait"
  /\ cancel.driver = "done" \/ now >= cancel.deadline
  /\ Cancel_to(
       [cancel EXCEPT
          !.at = IF cancel.command \in {"stop_instance", "pause_instance"}
                 THEN "lock" ELSE "returned",
          !.state = IF cancel.command = "delete_instance" THEN "Deleted" ELSE @],
       faker_lock["s1"])

\* faker_arc.write().await of stop_instance and pause_instance
CommandLocks ==
  /\ cancel.at = "lock"
  /\ faker_lock["s1"] = "none"
  /\ Cancel_to([cancel EXCEPT !.at = "faker"], "command")

\* stop() or pause() returns and the command with it; a stop whose announce
\* failed leaves the state as it was
CommandReturns ==
  /\ cancel.at = "faker"
  /\ \E ok \in BOOLEAN :
       /\ cancel.command = "pause_instance" => ok
       /\ Cancel_to(
            [cancel EXCEPT
               !.at = "returned",
               !.state = IF ~ok THEN @
                         ELSE IF cancel.command = "stop_instance" THEN "Stopped"
                         ELSE "Paused"],
            "none")

\* the select of the loop takes a ready branch: the signal ends the task,
\* the sleep starts a tick
DriverSelects ==
  /\ cancel.driver = "select"
  /\ \E branch \in select_ready(cancel.rx, cancel.wake) :
       Cancel_to([cancel EXCEPT !.driver = IF branch = "shutdown" THEN "done"
                                           ELSE "check"],
                 faker_lock["s1"])

\* should_continue: the instance is in the registry and Running
DriverContinues ==
  /\ cancel.driver = "check"
  /\ faker_lock["s1"] = "none"
  /\ Cancel_to([cancel EXCEPT !.driver = IF cancel.state = "Running"
                                           THEN "lock" ELSE "done"],
               "none")

\* faker.write().await of the tick
DriverUpdates ==
  /\ cancel.driver = "lock"
  /\ faker_lock["s1"] = "none"
  /\ Cancel_to([cancel EXCEPT !.driver = "update"], "driver")

\* update() returns, the state is saved if due, the loop sleeps again
DriverSleeps ==
  /\ cancel.driver = "update"
  /\ Cancel_to([cancel EXCEPT !.driver = "select",
                              !.wake = now + update_interval],
               "none")

\* a task can run now
Runnable ==
  \/ cancel.driver = "select" /\ select_ready(cancel.rx, cancel.wake) # {}
  \/ cancel.driver \in {"check", "lock"} /\ faker_lock["s1"] = "none"
  \/ cancel.at = "wait" /\ (cancel.driver = "done" \/ now >= cancel.deadline)
  \/ cancel.at = "lock" /\ faker_lock["s1"] = "none"

\* a second passes
ClockTicks ==
  /\ ~Runnable
  /\ now < MaxClock
  /\ now' = now + 1
  /\ UNCHANGED <<instances, drivers, persisted, announces, last_op, ncmd,
                 locks, streams, calls>>

DriverStep == DriverSelects \/ DriverContinues \/ DriverUpdates \/ DriverSleeps

CancelNext ==
  \/ CommandSignals
  \/ CommandWaited
  \/ CommandLocks
  \/ CommandReturns
  \/ DriverSelects
  \/ DriverContinues
  \/ DriverUpdates
  \/ DriverSleeps
  \/ ClockTicks

\* the runtime polls a task that can run, and a tracker request ends (the
\* HTTP client gives up after 30 s)
Cancelling ==
  /\ CancelInit
  /\ [][CancelNext]_vars
  /\ WF_vars(DriverStep)
  /\ WF_vars(CommandLocks \/ CommandReturns \/ CommandWaited)
  /\ WF_vars(ClockTicks)

\* -------------------------------------------------------------- logging
\* The commands of the desktop application on a multi-threaded runtime: a
\* command runs on some thread until it awaits, and goes on, on whichever
\* thread polls it, when what it awaited is there.  The engine's log macros
\* read the context of the thread they run on.

\* logger::set_instance_context: the thread-local INSTANCE_CONTEXT of the
\* calling thread
set_instance_context(context, thread, instance_id) ==
  [context EXCEPT ![thread] = instance_id]

\* logger::get_instance_prefix on the calling thread
get_instance_prefix(context, thread) ==
  IF context[thread] # <<>> THEN <<"Instance", context[thread][1]>> ELSE <<>>

\* log_info! and its siblings: the line an engine call working for
\* instance_id writes on the thread
log_line(context, thread, instance_id) ==
  [instance |-> instance_id, prefix |-> get_instance_prefix(context, thread)]

LoggingInit ==
  /\ now = 0
  /\ instances = << >>
  /\ drivers = [id \in IDs |-> NoDriver]
  /\ persisted = << >>
  /\ announces = [id \in IDs |-> <<>>]
  /\ last_op = [name |-> "new", id |-> "", ok |-> TRUE]
  /\ ncmd = 0
  /\ pc = [task \in Tasks |-> "begin"]
  /\ faker_lock = [id \in LockIDs |-> "none"]
  /\ instances_lock = {}
  /\ sse = "none"
  /\ behind = [s \in Subscribers |-> 0]
  /\ open = [s \in Subscribers |-> TRUE]
  /\ arg = NoCall
  /\ ret = Pending
  /\ cli = NoSession
  /\ cancel = NoCancel
  /\ logger = NoLogger

\* a step of a command
Logger_to(next) ==
  /\ logger' = next
  /\ UNCHANGED <<now, instances, drivers, persisted, announces, last_op, ncmd,
                 locks, streams, arg, ret, cli, cancel>>

\* start_faker(instance_id) or update_faker(instance_id) is called: it sets
\* the context and awaits the lock of state.fakers
CommandSetsContext(instance_id) ==
  /\ logger.at[instance_id] = "idle"
  /\ \E thread \in Workers, command \in {"start_faker", "update_faker"} :
       Logger_to([logger EXCEPT
                    !.context = set_instance_context(@, thread, <<instance_id>>),
                    !.at[instance_id] = command])

\* update_faker has the lock: faker.update() logs and the command returns
UpdateLogs(instance_id) ==
  /\ logger.at[instance_id] = "update_faker"
  /\ \E thread \in Workers :
       Logger_to([logger EXCEPT
                    !.lines = @ \cup {log_line(logger.context, thread, instance_id)},
                    !.at[instance_id] = "idle"])

\* start_faker has the lock: faker.start() logs that it starts and awaits
\* the tracker
StartLogs(instance_id) ==
  /\ logger.at[instance_id] = "start_faker"
  /\ \E thread \in Workers :
       Logger_to([logger EXCEPT
                    !.lines = @ \cup {log_line(logger.context, thread, instance_id)},
                    !.at[instance_id] = "announce"])

\* the tracker has answered: faker.start() logs the result and the command
\* returns
StartedLogs(instance_id) ==
  /\ logger.at[instance_id] = "announce"
  /\ \E thread \in Workers :
       Logger_to([logger EXCEPT
                    !.lines = @ \cup {log_line(logger.context, thread, instance_id)},
                    !.at[instance_id] = "idle"])

LoggingNext ==
  \/ \E instance_id \in InstanceIds : CommandSetsContext(instance_id)
  \/ \E instance_id \in InstanceIds : UpdateLogs(instance_id)
  \/ \E instance_id \in InstanceIds : StartLogs(instance_id)
  \/ \E instance_id \in InstanceIds : StartedLogs(instance_id)

Logging == LoggingInit /\ [][LoggingNext]_vars

\* ------------------------------------------------- the progressive session
\* One session with progressive rates that is started once and then ticked
\* by its background_update_loop for MaxProgress seconds.

MaxProgress == 30

\* the progressive horizons: none at all, one shorter than a driver period,
\* one of two driver periods, one longer than the run
Horizons == {0, 3, 10, 3600}

\* a seeder that ramps up, one that ramps down, one without a target, and a
\* leecher whose download rate ramps up
ProgressiveConfigs ==
  { [c EXCEPT !.progressive_rates = TRUE, !.progressive_duration = h] :
      c \in { [BaseConfig EXCEPT !.upload_rate = 1, !.target_upload_rate = 3],
              [BaseConfig EXCEPT !.upload_rate = 3, !.target_upload_rate = 1],
              [BaseConfig EXCEPT !.upload_rate = 2],
              [BaseConfig EXCEPT !.download_rate = 1, !.target_download_rate = 2,
                                 !.completion_percent = 0] },
      h \in Horizons }

ProgressiveStart(id) ==
  /\ ncmd = 0
  /\ now = 0
  /\ ncmd' = 1
  /\ \E config \in ProgressiveConfigs, resp \in TrackerAnswers(id) :
       Returns(start_faker(World, id, DrivenTorrent, config, resp),
               "start_faker", id)

ProgressiveAdvance ==
  /\ ncmd = 1
  /\ now + update_interval <= MaxProgress
  /\ \A id \in IDs : ~(drivers[id].alive /\ now >= drivers[id].wake)
  /\ now' = now + update_interval
  /\ last_op' = [name |-> "advance", id |-> "", ok |-> TRUE]
  /\ UNCHANGED <<instances, drivers, persisted, announces, ncmd, locks, streams,
                 calls>>

ProgressiveNext ==
  \/ \E id \in IDs : ProgressiveStart(id)
  \/ \E id \in IDs : DrivenWake(id)
  \/ ProgressiveAdvance

Progressing == Init /\ [][ProgressiveNext]_vars

\* --------------------------------------------------------------- validating
\* The two call sites that start a session, given configurations out of
\* range: start_faker of the server, on the registry, and the start_faker
\* command of the desktop application, called once on its map of fakers.

\* validation::validate_rate
validate_rate(rate) == 0 <= rate /\ rate <= 1000000

\* validation::validate_port
validate_port(port) == port >= 1024

\* validation::validate_percentage
validate_percentage(value) == 0 <= value /\ value <= 100

\* start_faker of the desktop, "Validate faker configuration"
validated(config) ==
  /\ validate_rate(config.upload_rate)
  /\ validate_rate(config.download_rate)
  /\ validate_port(config.port)
  /\ validate_percentage(config.completion_percent)
  /\ config.randomize_rates => validate_percentage(config.random_range_percent)

\* start_faker of the desktop, from "Check if instance already exists" on:
\* the result is the map of fakers after the call, the announces sent and
\* whether the command returned Ok
started_faker(fakers, instance_id, torrent, config, resp) ==
  LET same == /\ instance_id \in DOMAIN fakers
              /\ fakers[instance_id].torrent_info_hash = torrent.info_hash
      config_with_cumulative ==
        IF same
        THEN [config EXCEPT
                !.initial_uploaded = fakers[instance_id].cumulative_uploaded,
                !.initial_downloaded = fakers[instance_id].cumulative_downloaded]
        ELSE config
      r == start(RatioFaker_new(torrent, config_with_cumulative), resp)
      instance == [faker |-> r.faker,
                   torrent_info_hash |-> torrent.info_hash,
                   cumulative_uploaded |-> config_with_cumulative.initial_uploaded,
                   cumulative_downloaded |-> config_with_cumulative.initial_downloaded]
  IN  IF ~r.ok THEN [fakers |-> fakers, sent |-> r.sent, ok |-> FALSE]
      ELSE [fakers |-> [i \in DOMAIN fakers \cup {instance_id} |->
                          IF i = instance_id THEN instance ELSE fakers[i]],
            sent |-> r.sent, ok |-> TRUE]

\* start_faker of the desktop
desktop_start_faker(fakers, instance_id, torrent, config, resp) ==
  IF ~validated(config) THEN [fakers |-> fakers, sent |-> <<>>, ok |-> FALSE]
  ELSE started_faker(fakers, instance_id, torrent, config, resp)

\* the configurations submitted: one in range; a negative rate on either
\* axis, a privileged port, a completion percent above 100
SubmittedConfigs ==
  { BaseConfig,
    [BaseConfig EXCEPT !.upload_rate = -1],
    [BaseConfig EXCEPT !.download_rate = -1, !.completion_percent = 50],
    [BaseConfig EXCEPT !.port = 80],
    [BaseConfig EXCEPT !.completion_percent = 150] }

\* the desktop's map of fakers before the call: empty, or holding the
\* instance numbered 1
FakerMaps ==
  { << >>, started_faker(<< >>, 1, DrivenTorrent, BaseConfig, Answer(5, None)).fakers }

DesktopArgs ==
  { [fn |-> "desktop_start_faker", fakers |-> fakers, instance_id |-> 1,
     torrent |-> DrivenTorrent, config |-> config, resp |-> resp] :
      fakers \in FakerMaps, config \in SubmittedConfigs,
      resp \in {Failure, Answer(5, None)} }

ValidatingInit ==
  /\ now = 0
  /\ instances = << >>
  /\ drivers = [id \in IDs |-> NoDriver]
  /\ persisted = << >>
  /\ announces = [id \in IDs |-> <<>>]
  /\ last_op = [name |-> "new", id |-> "", ok |-> TRUE]
  /\ ncmd = 0
  /\ pc = [task \in Tasks |-> "begin"]
  /\ faker_lock = [id \in LockIDs |-> "none"]
  /\ instances_lock = {}
  /\ sse = "none"
  /\ behind = [s \in Subscribers |-> 0]
  /\ open = [s \in Subscribers |-> TRUE]
  /\ arg \in DesktopArgs
  /\ ret = Pending
  /\ cli = NoSession
  /\ cancel = NoCancel
  /\ logger = NoLogger

\* the command of the desktop is called
DesktopStartFaker ==
  /\ arg.fn = "desktop_start_faker"
  /\ ~ret.done
  /\ LET result == desktop_start_faker(arg.fakers, arg.instance_id, arg.torrent,
                                       arg.config, arg.resp)
     IN  /\ ret' = result @@ [done |-> TRUE]
         /\ last_op' = [name |-> "desktop_start_faker", id |-> "", ok |-> result.ok]
  /\ UNCHANGED <<arg, cli, cancel, logger, now, instances, drivers, persisted,
                 announces, ncmd, locks, streams>>

\* start_faker of the server is called
SubmitStart(id) ==
  \E config \in SubmittedConfigs, resp \in Responses :
    Command(start_faker(World, id, DrivenTorrent, config, resp), "start_faker", id)

ValidatingNext ==
  \/ DesktopStartFaker
  \/ \E id \in IDs : SubmitStart(id)
  \/ \E id \in IDs : DriverWake(id)
  \/ Advance

Validating == ValidatingInit /\ [][ValidatingNext]_vars

\* ---------------------------------------------------------- broadcasting
\* The log channel and the instance-event channel are tokio broadcast
\* channels: send() stores the value in a ring of the channel's capacity and
\* returns at once; every Receiver has its own position in the ring.  A
\* Receiver whose next value has been overwritten gets Err(Lagged(n)) once
\* and is moved to the oldest value still stored.

\* broadcast::channel(256) for logs, broadcast::channel(64) for instance
\* events
capacity(channel) == IF channel = "log" THEN 256 ELSE 64

\* an SSE stream that ends at the first error of its Receiver
sse_ends_on_error(result_ok) == result_ok

\* logs_sse / instances_sse: filter_map(|result| result.ok()...) drops an
\* Err(Lagged) item and the stream goes on; tells whether the stream is
\* open after an item
sse_continues(result_ok) == TRUE

\* everything but the streams and last_op
rest == <<now, instances, drivers, persisted, announces, ncmd, locks, calls>>

\* logs_sse or instances_sse: the clients subscribe
Connect(channel) ==
  /\ sse = "none"
  /\ sse' = channel
  /\ last_op' = [name |-> "subscribe", id |-> channel, ok |-> TRUE]
  /\ UNCHANGED <<behind, open, rest>>

\* BroadcastLayer::on_event or emit_instance_event: sender.send(event),
\* its result ignored.  How far a Receiver is behind is not told apart
\* beyond capacity + MaxOver.
Publish ==
  /\ sse # "none"
  /\ behind' = [s \in Subscribers |->
                  Min(behind[s] + 1, capacity(sse) + MaxOver)]
  /\ last_op' = [name |-> "send", id |-> sse, ok |-> TRUE]
  /\ UNCHANGED <<sse, open, rest>>

\* the stream of s polls its Receiver, which has a value for it
Receive(s) ==
  /\ sse # "none"
  /\ open[s]
  /\ behind[s] > 0
  /\ IF behind[s] > capacity(sse)
     THEN \* Err(Lagged(n)): the Receiver moves to the oldest stored value
          /\ behind' = [behind EXCEPT ![s] = capacity(sse)]
          /\ open' = [open EXCEPT ![s] = sse_continues(FALSE)]
          /\ last_op' = [name |-> "lagged", id |-> s, ok |-> FALSE,
                         lost |-> behind[s] - capacity(sse)]
     ELSE \* Ok(event): the event is sent to the client
          /\ behind' = [behind EXCEPT ![s] = @ - 1]
          /\ open' = [open EXCEPT ![s] = sse_continues(TRUE)]
          /\ last_op' = [name |-> "event", id |-> s, ok |-> TRUE, lost |-> 0]
  /\ UNCHANGED <<sse, rest>>

BroadcastNext ==
  \/ \E channel \in Channels : Connect(channel)
  \/ Publish
  \/ \E s \in Subscribers : Receive(s)

Broadcasting == Init /\ [][BroadcastNext]_vars

\* -------------------------------------------------------------- bencode
\* Byte strings are sequences of one-character strings.  serde_bencode
\* parses a dictionary into a HashMap (the order of its keys in the input
\* is forgotten, a repeated key keeps its last value) and writes a
\* dictionary with its keys sorted.

DigitChars == <<"0", "1", "2", "3", "4", "5", "6", "7", "8", "9">>
IsDigit(c) == \E k \in 1..10 : DigitChars[k] = c
DigitOf(c) == (CHOOSE k \in 1..10 : DigitChars[k] = c) - 1

\* the bytes used here, in the order of their codes
ByteOrder ==
  <<" ", "%", "&", "-", "/", "0", "1", "2", "3", "4", "5", "6", "7", "8", "9",
    ":", "=", "?", "A", "B", "C", "D", "E", "F", "a", "b", "c", "d", "e", "f",
    "g", "h", "i", "k", "l", "m", "n", "o", "p", "r", "s", "t", "u", "v", "w",
    "x", "y">>
Code(c) == CHOOSE k \in 1..Len(ByteOrder) : ByteOrder[k] = c

\* Ord for Vec<u8>: a < b
RECURSIVE LessBytes(_, _)
LessBytes(a, b) ==
  IF b = <<>> THEN FALSE
  ELSE IF a = <<>> THEN TRUE
  ELSE IF Head(a) = Head(b) THEN LessBytes(Tail(a), Tail(b))
  ELSE Code(Head(a)) < Code(Head(b))

\* the decimal digits of n >= 0
RECURSIVE to_digits(_)
to_digits(n) ==
  IF n < 10 THEN <<DigitChars[n + 1]>>
  ELSE Append(to_digits(n \div 10), DigitChars[(n % 10) + 1])

\* the run of digits of b from position i on: its value and its end
RECURSIVE parse_digits(_, _, _)
parse_digits(b, i, acc) ==
  IF i <= Len(b) /\ IsDigit(b[i])
  THEN parse_digits(b, i + 1, acc * 10 + DigitOf(b[i]))
  ELSE [n |-> acc, next |-> i]

ParseError == [ok |-> FALSE, value |-> None, next |-> 0]
Parsed(value, next) == [ok |-> TRUE, value |-> value, next |-> next]

\* i<digits>e, the digits read as d, the first of them at start
parse_int(b, d, first) ==
  IF d.next > first /\ d.next <= Len(b) /\ b[d.next] = "e"
  THEN Parsed([t |-> "Int", v |-> d.n], d.next + 1)
  ELSE ParseError

\* <length>:<bytes>, the length read as d
parse_bytes(b, d) ==
  IF d.next <= Len(b) /\ b[d.next] = ":" /\ d.next + d.n <= Len(b)
  THEN Parsed([t |-> "Bytes", v |-> SubSeq(b, d.next + 1, d.next + d.n)],
              d.next + d.n + 1)
  ELSE ParseError

RECURSIVE parse_value(_, _), parse_list(_, _, _), parse_list_item(_, _, _),
          parse_dict(_, _, _), parse_dict_key(_, _, _),
          parse_dict_entry(_, _, _, _)

\* the value that starts at position i of b, and the position after it
parse_value(b, i) ==
  IF i > Len(b) THEN ParseError
  ELSE IF b[i] = "i" THEN parse_int(b, parse_digits(b, i + 1, 0), i + 1)
  ELSE IF IsDigit(b[i]) THEN parse_bytes(b, parse_digits(b, i, 0))
  ELSE IF b[i] = "l" THEN parse_list(b, i + 1, <<>>)
  ELSE IF b[i] = "d" THEN parse_dict(b, i + 1, << >>)
  ELSE ParseError

parse_list(b, i, acc) ==
  IF i > Len(b) THEN ParseError
  ELSE IF b[i] = "e" THEN Parsed([t |-> "List", v |-> acc], i + 1)
  ELSE parse_list_item(b, parse_value(b, i), acc)

parse_list_item(b, r, acc) ==
  IF ~r.ok THEN ParseError ELSE parse_list(b, r.next, Append(acc, r.value))

parse_dict(b, i, acc) ==
  IF i > Len(b) THEN ParseError
  ELSE IF b[i] = "e" THEN Parsed([t |-> "Dict", v |-> acc], i + 1)
  ELSE IF ~IsDigit(b[i]) THEN ParseError
  ELSE parse_dict_key(b, parse_bytes(b, parse_digits(b, i, 0)), acc)

parse_dict_key(b, k, acc) ==
  IF ~k.ok THEN ParseError
  ELSE parse_dict_entry(b, k.value.v, parse_value(b, k.next), acc)

parse_dict_entry(b, key, r, acc) ==
  IF ~r.ok THEN ParseError ELSE parse_dict(b, r.next, insert(acc, key, r.value))

\* bencode::parse: serde_bencode::from_bytes reads one value from the front
\* of the data
parse(input) == parse_value(input, 1)

RECURSIVE to_bytes(_), encode_list(_), encode_dict(_, _)

\* serde_bencode::to_bytes
to_bytes(value) ==
  IF value.t = "Int" THEN <<"i">> \o to_digits(value.v) \o <<"e">>
  ELSE IF value.t = "Bytes" THEN to_digits(Len(value.v)) \o <<":">> \o value.v
  ELSE IF value.t = "List" THEN <<"l">> \o encode_list(value.v) \o <<"e">>
  ELSE <<"d">> \o encode_dict(value.v, DOMAIN value.v) \o <<"e">>

encode_list(items) ==
  IF items = <<>> THEN <<>> ELSE to_bytes(Head(items)) \o encode_list(Tail(items))

\* the entries of the given keys, least key first
encode_dict(map, keys) ==
  IF keys = {} THEN <<>>
  ELSE LET key == CHOOSE k \in keys : \A o \in keys \ {k} : LessBytes(k, o)
       IN  to_bytes([t |-> "Bytes", v |-> key]) \o to_bytes(map[key])
             \o encode_dict(map, keys \ {key})

\* dict.get(key) matched against one variant of Value
Has(dict, key, variant) == key \in DOMAIN dict /\ dict[key].t = variant

\* ------------------------------------------------------------ TorrentInfo

\* SHA-1, taken as free of collisions
Sha1(bytes) == <<"sha1">> \o bytes

\* windows(len).position(|w| w == marker): the first position of marker in
\* the input, 0 when there is none
position(input, marker) ==
  LET at == {i \in 1..(Len(input) - Len(marker) + 1) :
               SubSeq(input, i, i + Len(marker) - 1) = marker}
  IN  IF at = {} THEN 0 ELSE CHOOSE i \in at : \A j \in at : i <= j

\* calculate_info_hash, after the marker was looked for and the value
\* behind it parsed
info_hash_of(root, found, info_value) ==
  IF ~root.ok \/ root.value.t # "Dict" \/ found = 0 \/ ~info_value.ok
  THEN [ok |-> FALSE, hash |-> <<>>]
  ELSE [ok |-> TRUE, hash |-> Sha1(to_bytes(info_value.value))]

\* torrent/info.rs calculate_info_hash
calculate_info_hash(torrent_data) ==
  info_hash_of(parse(torrent_data),
               position(torrent_data, <<"4", ":", "i", "n", "f", "o">>),
               parse_value(torrent_data,
                           position(torrent_data, <<"4", ":", "i", "n", "f", "o">>) + 6))

\* the checks of TorrentInfo::from_bytes on the info dictionary
info_accepted(info_dict) ==
  /\ Has(info_dict, <<"n", "a", "m", "e">>, "Bytes")
  /\ Has(info_dict, <<"p", "i", "e", "c", "e", " ", "l", "e", "n", "g", "t", "h">>, "Int")
  /\ Has(info_dict, <<"p", "i", "e", "c", "e", "s">>, "Bytes")
  /\ \/ Has(info_dict, <<"l", "e", "n", "g", "t", "h">>, "Int")
     \/ /\ Has(info_dict, <<"f", "i", "l", "e", "s">>, "List")
        /\ \A k \in 1..Len(info_dict[<<"f", "i", "l", "e", "s">>].v) :
             LET file == info_dict[<<"f", "i", "l", "e", "s">>].v[k]
             IN  /\ file.t = "Dict"
                 /\ Has(file.v, <<"l", "e", "n", "g", "t", "h">>, "Int")
                 /\ Has(file.v, <<"p", "a", "t", "h">>, "List")

\* TorrentInfo::from_bytes, "let num_pieces = pieces_bytes.len() / 20"
num_pieces(info_dict) == Len(info_dict[<<"p", "i", "e", "c", "e", "s">>].v) \div 20

\* TorrentInfo::from_bytes, given the parsed document and the info hash
\* computed for it
from_parsed(root, hashed) ==
  IF /\ root.ok
     /\ root.value.t = "Dict"
     /\ Has(root.value.v, <<"a", "n", "n", "o", "u", "n", "c", "e">>, "Bytes")
     /\ Has(root.value.v, <<"i", "n", "f", "o">>, "Dict")
     /\ hashed.ok
     /\ info_accepted(root.value.v[<<"i", "n", "f", "o">>].v)
  THEN [ok |-> TRUE, info_hash |-> hashed.hash,
        num_pieces |-> num_pieces(root.value.v[<<"i", "n", "f", "o">>].v)]
  ELSE [ok |-> FALSE, info_hash |-> <<>>, num_pieces |-> 0]

\* TorrentInfo::from_bytes
from_bytes(input) == from_parsed(parse(input), calculate_info_hash(input))

\* ---------------------------------------------------------- TrackerClient
\* Strings are sequences of one-character strings; an Option is the empty
\* sequence (None) or a sequence of one value (Some).

HexChars == <<"0", "1", "2", "3", "4", "5", "6", "7", "8", "9",
              "A", "B", "C", "D", "E", "F">>

\* format!("%{:02X}", b) over the bytes of an info hash
RECURSIVE info_hash_encoded(_)
info_hash_encoded(info_hash) ==
  IF info_hash = <<>> THEN <<>>
  ELSE <<"%", HexChars[(Head(info_hash) \div 16) + 1],
              HexChars[(Head(info_hash) % 16) + 1]>>
         \o info_hash_encoded(Tail(info_hash))

\* an as_str that names every event
as_str_named(event) ==
  IF event = "Started" THEN <<<<"s", "t", "a", "r", "t", "e", "d">>>>
  ELSE IF event = "Stopped" THEN <<<<"s", "t", "o", "p", "p", "e", "d">>>>
  ELSE IF event = "Completed" THEN <<<<"c", "o", "m", "p", "l", "e", "t", "e", "d">>>>
  ELSE <<<<"n", "o", "n", "e">>>>

\* TrackerEvent::as_str
as_str(event) ==
  IF event = "Started" THEN <<<<"s", "t", "a", "r", "t", "e", "d">>>>
  ELSE IF event = "Stopped" THEN <<<<"s", "t", "o", "p", "p", "e", "d">>>>
  ELSE IF event = "Completed" THEN <<<<"c", "o", "m", "p", "l", "e", "t", "e", "d">>>>
  ELSE <<>>

\* params.join("&")
RECURSIVE join(_, _)
join(params, sep) ==
  IF params = <<>> THEN <<>>
  ELSE IF Len(params) = 1 THEN params[1]
  ELSE params[1] \o sep \o join(Tail(params), sep)

\* str::contains(char)
contains(str, ch) == \E i \in 1..Len(str) : str[i] = ch

\* format!("{name}={value}") when the option holds a value
param(name, option) ==
  IF option = <<>> THEN <<>> ELSE <<name \o <<"=">> \o option[1]>>

\* Option<u32> shown as a number
shown(option) == IF option = <<>> THEN <<>> ELSE <<to_digits(option[1])>>

\* TrackerClient::build_announce_url
build_announce_url(client_config, tracker_url, request) ==
  LET params ==
        << <<"i", "n", "f", "o", "_", "h", "a", "s", "h">> \o <<"=">> \o info_hash_encoded(request.info_hash),
           <<"p", "e", "e", "r", "_", "i", "d">> \o <<"=">> \o request.peer_id,
           <<"p", "o", "r", "t">> \o <<"=">> \o to_digits(request.port),
           <<"u", "p", "l", "o", "a", "d", "e", "d">> \o <<"=">> \o to_digits(request.uploaded),
           <<"d", "o", "w", "n", "l", "o", "a", "d", "e", "d">> \o <<"=">> \o to_digits(request.downloaded),
           <<"l", "e", "f", "t">> \o <<"=">> \o to_digits(request.left),
           <<"c", "o", "m", "p", "a", "c", "t">> \o <<"=">> \o (IF request.compact THEN <<"1">> ELSE <<"0">>) >>
        \o (IF request.no_peer_id THEN <<<<"n", "o", "_", "p", "e", "e", "r", "_", "i", "d", "=", "1">>>> ELSE <<>>)
        \o param(<<"e", "v", "e", "n", "t">>, as_str(request.event))
        \o param(<<"i", "p">>, request.ip)
        \o param(<<"n", "u", "m", "w", "a", "n", "t">>, shown(request.numwant))
        \o param(<<"k", "e", "y">>, request.key)
        \o param(<<"t", "r", "a", "c", "k", "e", "r", "i", "d">>, request.tracker_id)
        \o (IF client_config.supports_crypto THEN <<<<"s", "u", "p", "p", "o", "r", "t", "c", "r", "y", "p", "t", "o", "=", "1">>>> ELSE <<>>)
      separator == IF contains(tracker_url, "?") THEN <<"&">> ELSE <<"?">>
  IN  [ok |-> TRUE, url |-> tracker_url \o separator \o join(params, <<"&">>)]

\* str::starts_with
starts_with(str, prefix) ==
  Len(str) >= Len(prefix) /\ SubSeq(str, 1, Len(prefix)) = prefix

\* str::replace: every non-overlapping occurrence of from, left to right
RECURSIVE replace(_, _, _)
replace(str, from, to) ==
  IF str = <<>> THEN <<>>
  ELSE IF starts_with(str, from)
       THEN to \o replace(SubSeq(str, Len(from) + 1, Len(str)), from, to)
       ELSE <<Head(str)>> \o replace(Tail(str), from, to)

\* Url::parse followed by Url::to_string, for http URLs in normal form with
\* a path: a text without a scheme is refused (RelativeUrlWithoutBase), any
\* other is kept as it is
Url_parse(str) ==
  [ok  |-> \E i \in 1..Len(str) : starts_with(SubSeq(str, i, Len(str)), <<":", "/", "/">>),
   url |-> str]

\* the bytes application/x-www-form-urlencoded leaves as they are
FormSafe == {"0", "1", "2", "3", "4", "5", "6", "7", "8", "9",
             "A", "B", "C", "D", "E", "F", "*", "-", ".", "_"}

\* the codes of the other bytes an encoded info hash or a parameter name holds
Ascii == [c \in {"%", "&", "=", "?", "/", ":"} |->
            CASE c = "%" -> 37 [] c = "&" -> 38 [] c = "=" -> 61
              [] c = "?" -> 63 [] c = "/" -> 47 [] c = ":" -> 58]

\* form_urlencoded::byte_serialize
RECURSIVE byte_serialize(_)
byte_serialize(str) ==
  IF str = <<>> THEN <<>>
  ELSE (IF Head(str) \in FormSafe \/ Head(str) \notin DOMAIN Ascii
        THEN <<Head(str)>>
        ELSE <<"%", HexChars[(Ascii[Head(str)] \div 16) + 1],
                    HexChars[(Ascii[Head(str)] % 16) + 1]>>)
       \o byte_serialize(Tail(str))

\* Url::query_pairs_mut().append_pair: the query is started or continued
\* and the name and the value are written form-urlencoded
append_pair(url, name, value) ==
  url \o (IF contains(url, "?") THEN <<"&">> ELSE <<"?">>)
      \o byte_serialize(name) \o <<"=">> \o byte_serialize(value)

\* TrackerClient::build_scrape_url
build_scrape_url(tracker_url, info_hash) ==
  LET parsed == Url_parse(replace(tracker_url, <<"/", "a", "n", "n", "o", "u", "n", "c", "e">>, <<"/", "s", "c", "r", "a", "p", "e">>))
  IN  IF ~parsed.ok THEN [ok |-> FALSE, url |-> <<>>]
      ELSE [ok  |-> TRUE,
            url |-> append_pair(parsed.url, <<"i", "n", "f", "o", "_", "h", "a", "s", "h">>,
                                info_hash_encoded(info_hash))]

\* Result::Err(TrackerError::..)
TrackerError(error, reason) ==
  [ok |-> FALSE, error |-> error, reason |-> reason, interval |-> 0,
   tracker_id |-> <<>>]

\* TrackerClient::parse_announce_response on the value bencode::parse gave
announce_response_of(r) ==
  IF ~r.ok THEN TrackerError("BencodeError", <<>>)
  ELSE IF r.value.t # "Dict" THEN TrackerError("InvalidResponse", <<>>)
  ELSE IF Has(r.value.v, <<"f", "a", "i", "l", "u", "r", "e", " ", "r", "e", "a", "s", "o", "n">>, "Bytes")
       THEN TrackerError("TrackerFailure", r.value.v[<<"f", "a", "i", "l", "u", "r", "e", " ", "r", "e", "a", "s", "o", "n">>].v)
  ELSE IF ~Has(r.value.v, <<"i", "n", "t", "e", "r", "v", "a", "l">>, "Int")
       THEN TrackerError("InvalidResponse", <<>>)
  ELSE [ok |-> TRUE, error |-> "", reason |-> <<>>,
        interval |-> r.value.v[<<"i", "n", "t", "e", "r", "v", "a", "l">>].v,
        tracker_id |-> IF Has(r.value.v, <<"t", "r", "a", "c", "k", "e", "r", " ", "i", "d">>, "Bytes")
                       THEN <<r.value.v[<<"t", "r", "a", "c", "k", "e", "r", " ", "i", "d">>].v>> ELSE <<>>]

\* TrackerClient::parse_announce_response
parse_announce_response(input) == announce_response_of(parse(input))

\* StatusCode::is_success
is_success(status) == 200 <= status /\ status <= 299

\* TrackerClient::announce, the reply to the GET request given
TrackerClient_announce(client_config, tracker_url, request, reply) ==
  IF ~build_announce_url(client_config, tracker_url, request).ok
  THEN TrackerError("InvalidUrl", <<>>)
  ELSE IF ~reply.sent THEN TrackerError("HttpError", <<>>)
  ELSE IF ~is_success(reply.status) THEN TrackerError("HttpError", <<>>)
  ELSE parse_announce_response(reply.body)

\* ----------------------------------------------------------- ClientConfig

\* the positions at which a piece of str starts, str being cut at every
\* occurrence of the character sep
Starts(str, sep) == {i \in 1..Len(str) + 1 : i = 1 \/ str[i - 1] = sep}

\* the piece of str that starts at position i
PieceAt(str, sep, i) ==
  LET ends == {j \in i..Len(str) + 1 : j = Len(str) + 1 \/ str[j] = sep}
      j    == CHOOSE e \in ends : \A o \in ends : e <= o
  IN  SubSeq(str, i, j - 1)

\* str::split(char): the pieces of str between the occurrences of sep
split(str, sep) ==
  LET starts == Starts(str, sep)
  IN  [k \in 1..Cardinality(starts) |->
         PieceAt(str, sep,
                 CHOOSE i \in starts : Cardinality({o \in starts : o < i}) = k - 1)]

\* PadString::pad_to_width_with_char: cut to the width, or filled on the
\* right with ch
pad_to_width_with_char(str, width, ch) ==
  IF Len(str) >= width THEN SubSeq(str, 1, width)
  ELSE str \o [i \in 1..(width - Len(str)) |-> ch]

\* Option::unwrap_or_else
unwrap_or(option, default) == IF option = <<>> THEN default ELSE option[1]

\* ClientConfig::utorrent, the peer_id_prefix
utorrent(version) ==
  LET version_code == replace(unwrap_or(version, <<"3", ".", "5", ".", "5">>), <<".">>, <<>>)
  IN  <<"-", "U", "T">> \o pad_to_width_with_char(version_code, 4, "0") \o <<"-">>

\* the version code of qBittorrent and Deluge: the first three parts
three_parts(parts, fallback) ==
  IF Len(parts) >= 3 THEN parts[1] \o parts[2] \o parts[3] ELSE fallback

\* ClientConfig::qbittorrent, the peer_id_prefix
qbittorrent(version) ==
  LET version_code == three_parts(split(unwrap_or(version, <<"5", ".", "1", ".", "4">>), "."), <<"5", "1", "4">>)
  IN  <<"-", "q", "B">> \o pad_to_width_with_char(version_code, 4, "0") \o <<"-">>

\* the version code of Transmission: the first part and the second padded
\* to two characters
two_parts(parts) ==
  IF Len(parts) >= 2
  THEN parts[1] \o pad_to_width_with_char(parts[2], 2, "0")
  ELSE <<"4", "0", "0">>

\* ClientConfig::transmission, the peer_id_prefix
transmission(version) ==
  LET version_code == two_parts(split(unwrap_or(version, <<"4", ".", "0", ".", "5">>), "."))
  IN  <<"-", "T", "R">> \o pad_to_width_with_char(version_code, 4, "0") \o <<"-">>

\* ClientConfig::deluge, the peer_id_prefix
deluge(version) ==
  LET version_code == three_parts(split(unwrap_or(version, <<"2", ".", "1", ".", "1">>), "."), <<"2", "1", "1">>)
  IN  <<"-", "D", "E">> \o pad_to_width_with_char(version_code, 4, "0") \o <<"-">>

\* ClientConfig::get
ClientConfig_get(client_type, version) ==
  [client_type |-> client_type,
   peer_id_prefix |->
     CASE client_type = "UTorrent" -> utorrent(version)
       [] client_type = "QBittorrent" -> qbittorrent(version)
       [] client_type = "Transmission" -> transmission(version)
       [] client_type = "Deluge" -> deluge(version),
   supports_crypto |-> TRUE]

\* the characters of a peer id suffix
SuffixChars == <<"0", "1", "2", "3", "4", "5", "6", "7", "8", "9", "A", "B", "C", "D", "E", "F", "G", "H", "I", "J", "K", "L", "M", "N", "O", "P", "Q", "R", "S", "T", "U", "V", "W", "X", "Y", "Z", "a", "b", "c", "d", "e", "f", "g", "h", "i", "j", "k", "l", "m", "n", "o", "p", "q", "r", "s", "t", "u", "v", "w", "x", "y", "z">>

\* ClientConfig::generate_peer_id, the twelve random indices given
generate_peer_id(client_config, random) ==
  client_config.peer_id_prefix \o [i \in 1..12 |-> SuffixChars[random[i] + 1]]

\* ClientConfig::generate_key, the eight random numbers given
generate_key(random) == [i \in 1..8 |-> HexChars[random[i] + 1]]

\* -------------------------------------------------------- announce interval
\* The interval of an AnnounceResponse (an i64) as start and
\* periodic_announce record it.  A u64 is written as its four 16-bit limbs,
\* the most significant first.

Limb == 65536

\* "response.interval as u64": the 64 bits of the i64 read as unsigned
as_u64(n) ==
  IF n >= 0 THEN <<0, 0, n \div Limb, n % Limb>>
  ELSE <<Limb - 1, Limb - 1,
         Limb - 1 - ((-n - 1) \div Limb), Limb - 1 - ((-n - 1) % Limb)>>

\* Duration::from_secs
from_secs(secs) == secs

\* Instant + Duration, the instant at tv_sec seconds of the monotonic clock:
\* the sum as an i64 of seconds, or a panic when it does not fit one
instant_add(tv_sec, duration) ==
  LET l0 == duration[4] + (tv_sec % Limb)
      l1 == duration[3] + (tv_sec \div Limb) + (l0 \div Limb)
      l2 == duration[2] + (l1 \div Limb)
      l3 == duration[1] + (l2 \div Limb)
  IN  IF l3 >= Limb \div 2
      THEN [panicked |-> TRUE, secs |-> <<>>]
      ELSE [panicked |-> FALSE, secs |-> <<l3, l2 % Limb, l1 % Limb, l0 % Limb>>]

\* RatioFaker::start and periodic_announce, from "Update announce interval"
\* to the assignment of next_announce, Instant::now() being tv_sec
record_interval(tv_sec, interval) ==
  LET announce_interval == from_secs(as_u64(interval))
      next_announce     == instant_add(tv_sec, announce_interval)
  IN  [ok |-> ~next_announce.panicked,
       announce_interval |-> announce_interval,
       next_announce |-> next_announce.secs]

\* ------------------------------------------------------- library calls
\* Each function is called once on an argument drawn from a bounded set.

\* a string of the given bytes, and an integer, in bencode
BStr(bytes) == to_digits(Len(bytes)) \o <<":">> \o bytes
BInt(n) == <<"i">> \o to_digits(n) \o <<"e">>

\* the pieces strings: no hash, three bytes, one hash of 20 bytes, one hash
\* and a byte
Pieces == {[i \in 1..n |-> "p"] : n \in {0, 3, 20, 21}}

\* the info dictionaries: name, length and pieces vary, and the keys are
\* written either sorted or with name first
InfoDicts ==
  { <<"d">> \o (IF sorted
                THEN BStr(<<"l", "e", "n", "g", "t", "h">>) \o BInt(length) \o BStr(<<"n", "a", "m", "e">>) \o BStr(name)
                ELSE BStr(<<"n", "a", "m", "e">>) \o BStr(name) \o BStr(<<"l", "e", "n", "g", "t", "h">>) \o BInt(length))
           \o BStr(<<"p", "i", "e", "c", "e", " ", "l", "e", "n", "g", "t", "h">>) \o BInt(16) \o BStr(<<"p", "i", "e", "c", "e", "s">>) \o BStr(pieces)
           \o <<"e">> :
      name \in {<<"a">>, <<"b", "b">>}, length \in {5, 12}, sorted \in BOOLEAN,
      pieces \in Pieces }

\* the comments: no comment, a plain one, one that holds the bytes 4:info
Comments == {<<>>, BStr(<<"c", "o", "m", "m", "e", "n", "t">>) \o BStr(<<"h", "i">>), BStr(<<"c", "o", "m", "m", "e", "n", "t">>) \o BStr(<<"4", ":", "i", "n", "f", "o", "i", "7", "e">>)}

\* the torrent files: with or without a key behind info
TorrentFiles ==
  { <<"d">> \o BStr(<<"a", "n", "n", "o", "u", "n", "c", "e">>) \o BStr(<<"u">>) \o comment
           \o BStr(<<"i", "n", "f", "o">>) \o info_dict
           \o (IF more THEN BStr(<<"u", "r", "l", "-", "l", "i", "s", "t">>) \o BStr(<<"u">>) ELSE <<>>)
           \o <<"e">> :
      comment \in Comments, info_dict \in InfoDicts, more \in BOOLEAN }

\* the tracker URLs of a torrent: without and with a query of its own
TrackerUrls == {<<"h", ":", "/", "/", "t", "/", "a", "n", "n", "o", "u", "n", "c", "e">>, <<"h", ":", "/", "/", "t", "/", "a", "n", "n", "o", "u", "n", "c", "e", "?", "k", "=", "v">>}

\* two info hashes
InfoHashes == {[i \in 1..20 |-> 171], [i \in 1..20 |-> (i * 13) % 256]}

\* the announce requests RatioFaker::announce may build
AnnounceRequests ==
  { [ info_hash |-> info_hash,
      peer_id |-> <<"-", "q", "B", "5", "1", "4", "0", "-", "a", "b", "c", "d", "e", "f", "A", "B", "C", "D", "E", "F">>,
      port |-> 6881, uploaded |-> 5120, downloaded |-> 0, left |-> 10240,
      compact |-> compact, no_peer_id |-> no_peer_id, event |-> event,
      ip |-> ip, numwant |-> numwant, key |-> key, tracker_id |-> tracker_id ] :
      info_hash \in InfoHashes, compact \in BOOLEAN, no_peer_id \in BOOLEAN,
      event \in {"Started", "Stopped", "Completed", "None"},
      ip \in {<<>>, <<<<"1", "0", ".", "0", ".", "0", ".", "1">>>>}, numwant \in {<<>>, <<200>>},
      key \in {<<>>, <<<<"1", "A", "2", "B", "3", "C", "4", "D">>>>}, tracker_id \in {<<>>, <<<<"t", "i", "d">>>>} }

\* the announce URLs a scrape is derived from: the two above, one with two
\* /announce segments, one without a scheme
ScrapeUrls ==
  TrackerUrls \cup {<<"h", ":", "/", "/", "t", "/", "a", "n", "n", "o", "u", "n", "c", "e", "/", "a", "/", "a", "n", "n", "o", "u", "n", "c", "e">>, <<"t", "/", "a", "n", "n", "o", "u", "n", "c", "e">>}

\* the bodies a tracker may send: a failure, an answer, an answer with a
\* tracker id, a failure with an interval, a failure reason that is no
\* string, a value that is no dictionary, bytes that are no bencoding
Bodies ==
  { <<"d", "1", "4", ":", "f", "a", "i", "l", "u", "r", "e", " ", "r", "e", "a", "s", "o", "n", "3", ":", "b", "a", "d", "e">>,
    <<"d", "8", ":", "i", "n", "t", "e", "r", "v", "a", "l", "i", "1", "8", "0", "0", "e", "e">>,
    <<"d", "8", ":", "c", "o", "m", "p", "l", "e", "t", "e", "i", "3", "e", "8", ":", "i", "n", "t", "e", "r", "v", "a", "l", "i", "9", "0", "0", "e", "1", "0", ":", "t", "r", "a", "c", "k", "e", "r", " ", "i", "d", "1", ":", "T", "e">>,
    <<"d", "1", "4", ":", "f", "a", "i", "l", "u", "r", "e", " ", "r", "e", "a", "s", "o", "n", "3", ":", "b", "a", "d", "8", ":", "i", "n", "t", "e", "r", "v", "a", "l", "i", "1", "8", "0", "0", "e", "e">>,
    <<"d", "1", "4", ":", "f", "a", "i", "l", "u", "r", "e", " ", "r", "e", "a", "s", "o", "n", "i", "5", "e", "e">>,
    <<"i", "5", "e">>,
    <<"x">> }

\* the replies to a GET request: none (the request failed), or a status
\* and a body
Replies ==
  {[sent |-> FALSE, status |-> 0, body |-> <<>>]}
  \cup {[sent |-> TRUE, status |-> status, body |-> body] :
          status \in {200, 204, 400, 404, 500}, body \in Bodies}

\* the request of a started announce
StartedRequest ==
  CHOOSE request \in AnnounceRequests :
    /\ request.event = "Started" /\ request.compact /\ ~request.no_peer_id
    /\ request.ip = <<>> /\ request.numwant # <<>> /\ request.key # <<>>
    /\ request.tracker_id = <<>>

\* the client types
ClientTypes == {"UTorrent", "QBittorrent", "Transmission", "Deluge"}

\* the versions asked for: the default, one of three parts, one of two
\* parts, one with long parts
Versions == {<<>>, <<<<"4", ".", "6", ".", "0">>>>, <<<<"2", ".", "9", "4">>>>, <<<<"1", "0", ".", "2", "0", ".", "3", "0">>>>}

\* outcomes of rng.random_range(0..62), twelve at a time
SuffixDraws ==
  { [i \in 1..12 |-> 0], [i \in 1..12 |-> 61], [i \in 1..12 |-> (i * 7) % 62] }

\* the seconds of the monotonic clock when the answer arrives, and the
\* intervals a tracker answers with: usual ones, 0, negative ones
InstantSecs == {1, 65535, 100000}
ResponseIntervals == {1800, 65536, 0, -1, -1800, -65537}

\* the arguments of the calls
Args ==
  {[fn |-> "from_bytes", input |-> t] : t \in TorrentFiles}
  \cup {[fn |-> "build_announce_url",
         client_config |-> [supports_crypto |-> crypto],
         tracker_url |-> url, request |-> request] :
          crypto \in BOOLEAN, url \in TrackerUrls, request \in AnnounceRequests}
  \cup {[fn |-> "build_scrape_url", tracker_url |-> url, info_hash |-> info_hash] :
          url \in ScrapeUrls, info_hash \in InfoHashes}
  \cup {[fn |-> "announce", client_config |-> [supports_crypto |-> TRUE],
         tracker_url |-> url, request |-> StartedRequest, reply |-> reply] :
          url \in TrackerUrls, reply \in Replies}
  \cup {[fn |-> "generate_peer_id", client_type |-> client_type,
         version |-> version, random |-> random] :
          client_type \in ClientTypes, version \in Versions,
          random \in SuffixDraws}
  \cup {[fn |-> "record_interval", tv_sec |-> tv_sec, interval |-> interval] :
          tv_sec \in InstantSecs, interval \in ResponseIntervals}

\* the server is not running; one call is about to be made
CallsInit ==
  /\ now = 0
  /\ instances = << >>
  /\ drivers = [id \in IDs |-> NoDriver]
  /\ persisted = << >>
  /\ announces = [id \in IDs |-> <<>>]
  /\ last_op = [name |-> "new", id |-> "", ok |-> TRUE]
  /\ ncmd = 0
  /\ pc = [task \in Tasks |-> "begin"]
  /\ faker_lock = [id \in LockIDs |-> "none"]
  /\ instances_lock = {}
  /\ sse = "none"
  /\ behind = [s \in Subscribers |-> 0]
  /\ open = [s \in Subscribers |-> TRUE]
  /\ arg \in Args
  /\ ret = Pending
  /\ cli = NoSession
  /\ cancel = NoCancel
  /\ logger = NoLogger

\* the call of fn returns
Return(fn, result) ==
  /\ arg.fn = fn
  /\ ~ret.done
  /\ ret' = result @@ [done |-> TRUE]
  /\ last_op' = [name |-> fn, id |-> "", ok |-> result.ok]
  /\ UNCHANGED <<arg, cli, cancel, logger, now, instances, drivers, persisted, announces, ncmd,
                 locks, streams>>

FromBytes ==
  /\ arg.fn = "from_bytes"
  /\ Return("from_bytes", from_bytes(arg.input))

BuildAnnounceUrl ==
  /\ arg.fn = "build_announce_url"
  /\ Return("build_announce_url",
            build_announce_url(arg.client_config, arg.tracker_url, arg.request))

BuildScrapeUrl ==
  /\ arg.fn = "build_scrape_url"
  /\ Return("build_scrape_url", build_scrape_url(arg.tracker_url, arg.info_hash))

TrackerAnnounce ==
  /\ arg.fn = "announce"
  /\ Return("announce",
            TrackerClient_announce(arg.client_config, arg.tracker_url,
                                   arg.request, arg.reply))

GeneratePeerId ==
  /\ arg.fn = "generate_peer_id"
  /\ Return("generate_peer_id",
            [ok |-> TRUE,
             peer_id |-> generate_peer_id(
                           ClientConfig_get(arg.client_type, arg.version),
                           arg.random)])

RecordInterval ==
  /\ arg.fn = "record_interval"
  /\ Return("record_interval", record_interval(arg.tv_sec, arg.interval))

CallsNext ==
  \/ RecordInterval
  \/ FromBytes
  \/ BuildAnnounceUrl
  \/ BuildScrapeUrl
  \/ TrackerAnnounce
  \/ GeneratePeerId

Calls == CallsInit /\ [][CallsNext]_vars

\* ------------------------------------------------- command line session
\* run_json_mode: the RatioFaker it creates and starts, the Started event
\* it writes, and the announces of its main loop.

\* periodic announces of one session
MaxPeriodic == 2

\* outcomes of rng.random_range(0..16), eight at a time
KeyDraws == { [i \in 1..8 |-> i + 1], [i \in 1..8 |-> 15 - i] }

\* the runs: the client and the version given on the command line
Runs ==
  {[fn |-> "run_json_mode", client_type |-> client_type, version |-> version] :
     client_type \in ClientTypes, version \in Versions}

\* what the tracker does with an announce: no answer, an answer, an answer
\* with a tracker id
SessionReplies ==
  { [ok |-> FALSE, tracker_id |-> <<>>],
    [ok |-> TRUE, tracker_id |-> <<>>],
    [ok |-> TRUE, tracker_id |-> <<<<"T">>>>] }

\* RatioFaker::announce: the request built from the session
announce_request(session, event) ==
  [ info_hash |-> [i \in 1..20 |-> 171],
    peer_id |-> session.peer_id,
    port |-> 6881, uploaded |-> 0, downloaded |-> 0, left |-> 0,
    compact |-> TRUE, no_peer_id |-> FALSE, event |-> event,
    ip |-> <<>>, numwant |-> <<200>>, key |-> <<session.key>>,
    tracker_id |-> session.tracker_id ]

SessionInit ==
  /\ now = 0
  /\ instances = << >>
  /\ drivers = [id \in IDs |-> NoDriver]
  /\ persisted = << >>
  /\ announces = [id \in IDs |-> <<>>]
  /\ last_op = [name |-> "new", id |-> "", ok |-> TRUE]
  /\ ncmd = 0
  /\ pc = [task \in Tasks |-> "begin"]
  /\ faker_lock = [id \in LockIDs |-> "none"]
  /\ instances_lock = {}
  /\ sse = "none"
  /\ behind = [s \in Subscribers |-> 0]
  /\ open = [s \in Subscribers |-> TRUE]
  /\ arg \in Runs
  /\ ret = Pending
  /\ cli = NoSession
  /\ cancel = NoCancel
  /\ logger = NoLogger

\* a step of the runner
Runs_to(name, session, ok) ==
  /\ cli' = session
  /\ last_op' = [name |-> name, id |-> "", ok |-> ok]
  /\ UNCHANGED <<arg, ret, cancel, logger, now, instances, drivers, persisted,
                 announces, ncmd, locks, streams>>

\* RatioFaker::new: peer_id and key are drawn
SessionNew ==
  /\ cli.step = "none"
  /\ \E random \in SuffixDraws, hex \in KeyDraws :
       Runs_to("new",
               [cli EXCEPT !.step = "created",
                           !.peer_id = generate_peer_id(
                                         ClientConfig_get(arg.client_type, arg.version),
                                         random),
                           !.key = generate_key(hex)],
               TRUE)

\* faker.start(): the started announce; its tracker id is kept; an error
\* ends run_json_mode
SessionStart ==
  /\ cli.step = "created"
  /\ \E reply \in SessionReplies :
       Runs_to("start",
               [cli EXCEPT !.step = IF reply.ok THEN "started" ELSE "failed",
                           !.tracker_id = IF reply.ok THEN reply.tracker_id ELSE @,
                           !.sent = Append(@, announce_request(cli, "Started"))],
               reply.ok)

\* the Started event: its peer_id is the result of a generate_peer_id call
\* of the runner's own ClientConfig
SessionStarted ==
  /\ cli.step = "started"
  /\ \E random \in SuffixDraws :
       Runs_to("started_event",
               [cli EXCEPT !.step = "running",
                           !.events = Append(@,
                              [event |-> "started",
                               peer_id |-> generate_peer_id(
                                             ClientConfig_get(arg.client_type, arg.version),
                                             random)])],
               TRUE)

\* faker.update() with an announce due: periodic_announce
SessionPeriodic ==
  /\ cli.step = "running"
  /\ cli.periodic < MaxPeriodic
  /\ \E reply \in SessionReplies :
       Runs_to("periodic_announce",
               [cli EXCEPT !.periodic = @ + 1,
                           !.sent = Append(@, announce_request(cli, "None"))],
               reply.ok)

\* faker.update() when the download completes: on_completed
SessionCompleted ==
  /\ cli.step = "running"
  /\ ~cli.completed
  /\ \E reply \in SessionReplies :
       Runs_to("on_completed",
               [cli EXCEPT !.completed = TRUE,
                           !.sent = Append(@, announce_request(cli, "Completed"))],
               reply.ok)

\* faker.stop() after the main loop: the stopped announce
SessionStop ==
  /\ cli.step = "running"
  /\ \E reply \in SessionReplies :
       Runs_to("stop",
               [cli EXCEPT !.step = "stopped",
                           !.sent = Append(@, announce_request(cli, "Stopped"))],
               reply.ok)

SessionNext ==
  \/ SessionNew
  \/ SessionStart
  \/ SessionStarted
  \/ SessionPeriodic
  \/ SessionCompleted
  \/ SessionStop

Session == SessionInit /\ [][SessionNext]_vars


\* ---------------------------------------------------------------- properties

Faker(id) == instances[id].faker

\* the number of announces with the given event in a log
Count(log, event) == Cardinality({i \in 1..Len(log) : log[i].event = event})

\* this step is the API command "name" on id
IsCmd(name, id) ==
  /\ ncmd' = ncmd + 1
  /\ last_op'.name = name
  /\ last_op'.id = id

\* this step is one turn of the driver of id
IsDriverTurn(id) ==
  /\ ncmd' = ncmd
  /\ now' = now
  /\ last_op'.name = "driver"
  /\ last_op'.id = id

\* this step is a tick of the RatioFaker of id (update or update_stats_only)
IsTick(id) ==
  \/ IsCmd("update_instance", id)
  \/ IsCmd("update_stats_only", id)
  \/ IsDriverTurn(id) /\ drivers'[id].alive

\* this step ran an operation on the RatioFaker that id already had
SameSession(id) ==
  /\ id \in DOMAIN instances
  /\ \/ IsTick(id)
     \/ \E name \in {"start_instance", "stop_instance",
                     "pause_instance", "resume_instance"} : IsCmd(name, id)

\* C1: a session changes state only along the lifecycle edges, each by its
\* own operation: Idle -> Running by start, Running -> Paused by pause,
\* Paused -> Running by resume, Running -> Completed by a tick, and
\* Running/Paused/Completed -> Stopped by stop or a tick; pause on a session
\* that is not Running and resume on one that is not Paused change no state
\* and start no driver.
C1_LifecycleEdges ==
  [][\A id \in IDs : SameSession(id) =>
       LET from == Faker(id).state
           to   == instances'[id].faker.state
       IN  /\ \/ from = to
              \/ IsCmd("start_instance", id) /\ from = "Idle" /\ to = "Running"
              \/ IsCmd("pause_instance", id) /\ from = "Running" /\ to = "Paused"
              \/ IsCmd("resume_instance", id) /\ from = "Paused" /\ to = "Running"
              \/ IsTick(id) /\ from = "Running" /\ to = "Completed"
              \/ /\ IsTick(id) \/ IsCmd("stop_instance", id)
                 /\ from \in {"Running", "Paused", "Completed"}
                 /\ to = "Stopped"
           /\ IsCmd("pause_instance", id) /\ from # "Running"
                => to = from /\ ~drivers'[id].alive
           /\ IsCmd("resume_instance", id) /\ from # "Paused"
                => to = from /\ ~drivers'[id].alive
    ]_vars

\* C2: whenever a stopped announce is sent for a Running, Paused or
\* Completed session (by the stop command or by a stop predicate inside a
\* tick), the session is Stopped when the operation returns, also when the
\* announce failed.
C2_StopBestEffort ==
  [][\A id \in IDs :
       /\ SameSession(id)
       /\ Faker(id).state \in {"Running", "Paused", "Completed"}
       /\ Count(announces'[id], "stopped") > Count(announces[id], "stopped")
       => instances'[id].faker.state = "Stopped"
    ]_vars

\* C3: a stop on a session that is already Stopped leaves it Stopped and
\* sends no further stopped announce.
C3_StopIdempotent ==
  [][\A id \in IDs :
       /\ id \in DOMAIN instances
       /\ IsCmd("stop_instance", id)
       /\ Faker(id).state = "Stopped"
       => /\ instances'[id].faker.state = "Stopped"
          /\ Count(announces'[id], "stopped") = Count(announces[id], "stopped")
    ]_vars

\* C4: a completed announce is sent at most once per session, only by a
\* tick that takes left from a positive value to 0, and that tick makes the
\* session Completed (it ends Completed, or Stopped when a stop predicate
\* fired later in the same tick).
C4_CompletedOnce ==
  [][\A id \in IDs :
       /\ SameSession(id)
       /\ Count(announces'[id], "completed") > Count(announces[id], "completed")
       => /\ IsTick(id)
          /\ Count(announces[id], "completed") = 0
          /\ Count(announces'[id], "completed") = 1
          /\ Faker(id).stats.left > 0
          /\ instances'[id].faker.stats.left = 0
          /\ \/ instances'[id].faker.state = "Completed"
             \/ /\ instances'[id].faker.state = "Stopped"
                /\ Count(announces'[id], "stopped") > Count(announces[id], "stopped")
    ]_vars

\* C5: the driver of a session that is Completed keeps ticking it: a turn
\* of the driver on a Completed session does not end the driver.
C5_CompletedKeepsDriver ==
  [][\A id \in IDs :
       /\ id \in DOMAIN instances
       /\ IsDriverTurn(id)
       /\ drivers[id].alive
       /\ Faker(id).state = "Completed"
       => drivers'[id].alive
    ]_vars

\* C6: in the announces of one session the started announce is first, and
\* no completed announce comes after a stopped one.
C6_AnnounceOrder ==
  \A id \in IDs :
    LET log == announces[id]
    IN  /\ log # <<>> => log[1].event = "started"
        /\ \A i \in 1..Len(log) : \A j \in 1..Len(log) :
             i < j /\ log[i].event = "stopped" => log[j].event # "completed"

\* C7: a tick on a Paused session changes no byte counter and no history
\* ring and sends no announce.
C7_PausedTickIsNoop ==
  [][\A id \in IDs :
       /\ id \in DOMAIN instances
       /\ IsTick(id)
       /\ Faker(id).state = "Paused"
       => LET old == Faker(id).stats
              new == instances'[id].faker.stats
          IN  /\ new.uploaded = old.uploaded
              /\ new.downloaded = old.downloaded
              /\ new.left = old.left
              /\ new.session_uploaded = old.session_uploaded
              /\ new.session_downloaded = old.session_downloaded
              /\ new.upload_rate_history = old.upload_rate_history
              /\ new.download_rate_history = old.download_rate_history
              /\ new.ratio_history = old.ratio_history
              /\ announces'[id] = announces[id]
    ]_vars

\* the bytes RatioFaker::new counts as already downloaded for a config
AlreadyDownloaded(torrent, config) ==
  (torrent.total_size * Min(100, IF config.completion_percent < 0 THEN 0
                                 ELSE config.completion_percent)) \div 100

\* the counters an instance created under id inherits: those of the instance
\* that held id with the same info hash, else zero
Inherited(id, info_hash) ==
  IF id \in DOMAIN instances /\ instances[id].torrent_info_hash = info_hash
  THEN [uploaded |-> instances[id].cumulative_uploaded,
        downloaded |-> instances[id].cumulative_downloaded]
  ELSE [uploaded |-> 0, downloaded |-> 0]

C9_CumulativeAcrossRuns ==
  [][\A id \in IDs :
       /\ id \in DOMAIN instances
       /\ Faker(id).stats.state = "Stopped"
       /\ Faker(id).stats.last_announce # None
       /\ IsCmd("start_faker", id) \/ IsCmd("create_instance", id)
       /\ instances'[id].torrent_info_hash = instances[id].torrent_info_hash
       => /\ instances'[id].faker.stats.uploaded = Faker(id).stats.uploaded
          /\ instances'[id].faker.stats.session_uploaded = 0
    ]_vars

\* C10: the session-level state cell and the state field of the stats
\* snapshot are equal whenever no operation is in progress.
C10_StateCopiesAgree ==
  \A id \in DOMAIN instances : Faker(id).state = Faker(id).stats.state

\* the announces the operation of this step sent for id
Sent(id) ==
  SubSeq(announces'[id], Len(announces[id]) + 1, Len(announces'[id]))

\* this step is a turn of the driver of id that found the session Running
\* and so ticked it
IsDriverTick(id) ==
  /\ IsDriverTurn(id)
  /\ drivers[id].alive
  /\ id \in DOMAIN instances
  /\ Faker(id).stats.state = "Running"

\* C11: when an announce sent during a tick fails, the session keeps the
\* state it had before that announce (the state before the tick, or
\* Completed when the tick's completed announce had succeeded), in both
\* state cells; it is not moved to Stopped nor removed, and a driver that
\* ran the tick stays alive with its next wake-up scheduled.
C11_FailedAnnounceKeepsState ==
  [][\A id \in IDs :
       /\ id \in DOMAIN instances
       /\ IsTick(id) \/ IsDriverTick(id)
       /\ \E i \in 1..Len(Sent(id)) : ~Sent(id)[i].ok
       => LET from      == Faker(id)
              to        == instances'[id].faker
              completed == \E i \in 1..Len(Sent(id)) :
                             Sent(id)[i].event = "completed" /\ Sent(id)[i].ok
          IN  /\ id \in DOMAIN instances'
              /\ to.state = IF completed THEN "Completed" ELSE from.state
              /\ to.stats.state = IF completed THEN "Completed" ELSE from.stats.state
              /\ to.state = "Stopped" => from.state = "Stopped"
              /\ IsDriverTurn(id) =>
                   /\ drivers'[id].alive
                   /\ drivers'[id].wake = now + update_interval
    ]_vars

\* C11 witness: the driver has just ticked a Running session, an announce
\* of that tick failed, and the driver is still alive
C11_Witness ==
  \E id \in DOMAIN instances :
    /\ last_op = [name |-> "driver", id |-> id, ok |-> FALSE]
    /\ announces[id] # <<>>
    /\ ~announces[id][Len(announces[id])].ok
    /\ Faker(id).state = "Running"
    /\ drivers[id].alive

\* the last announce in the log of id
LastAnnounce(id) == announces[id][Len(announces[id])]

\* C12: after a periodic announce failed, the next periodic announce is
\* sent no earlier than one announce interval after the failed one: the
\* ticks in between do not retry it.
C12_NoRetryBeforeDue ==
  [][\A id \in IDs :
       /\ IsDriverTick(id)
       /\ announces[id] # <<>>
       /\ LastAnnounce(id).event = "none"
       /\ ~LastAnnounce(id).ok
       /\ \E i \in 1..Len(Sent(id)) : Sent(id)[i].event = "none"
       => now >= LastAnnounce(id).t + Faker(id).announce_interval
    ]_vars

\* an announce of session id is in flight: its HTTP request has been sent
\* and the tracker has not answered yet
InFlight(id) ==
  \/ id = "s1" /\ pc["driver"] = "http"
  \/ id = "s2" /\ pc["start_instance"] = "http"

\* the task has reached a read() or write() of the faker lock of id and
\* cannot get it
WaitsOnFaker(task, id) ==
  /\ faker_lock[id] # "none"
  /\ \/ task = "driver" /\ id = "s1" /\ pc[task] \in {"should_continue", "write"}
     \/ task = "get_stats" /\ id = "s1" /\ pc[task] = "read"
     \/ task = "list_instances" /\ pc[task] = id
     \/ task = "start_instance" /\ pc[task] = id
     \/ task = "start_instance" /\ id = "s2" /\ pc[task] = "write"

\* the task has reached instances.write() and cannot get it
WaitsOnInstances(task) ==
  /\ task = "start_instance"
  /\ pc[task] \in {"begin", "store"}
  /\ instances_lock # {}

\* C13: while an announce of a session is in flight, no other task waits
\* for that session's lock (get_stats and list_instances on it, and the
\* save_state of a command on another session, can complete), and no
\* command waits for the instances lock behind a task that does.
C13_TrackerDoesNotBlock ==
  \A id \in LockIDs : InFlight(id) =>
    /\ \A task \in Tasks : ~WaitsOnFaker(task, id)
    /\ \A task \in Tasks : WaitsOnInstances(task) =>
         \A holder \in instances_lock : ~WaitsOnFaker(holder, id)

\* the stop predicates as the claims state them, on the stats s of a
\* session with config c and torrent size total_size: the ratio
\* uploaded / total_size against the target less 0.001, then the session
\* counters and the elapsed time against their targets
RatioFires(c, s, total_size) ==
  /\ c.stop_at_ratio # None
  /\ total_size > 0
  /\ s.uploaded * 1000 >= (c.stop_at_ratio - 1) * total_size

UploadedFires(c, s) ==
  c.stop_at_uploaded # None /\ s.session_uploaded >= c.stop_at_uploaded

DownloadedFires(c, s) ==
  c.stop_at_downloaded # None /\ s.session_downloaded >= c.stop_at_downloaded

SeedTimeFires(c, s) ==
  c.stop_at_seed_time # None /\ s.elapsed_time >= c.stop_at_seed_time

\* some announce of this step for id has the given event
SentEvent(id, event) ==
  \E i \in 1..Len(Sent(id)) : Sent(id)[i].event = event

\* C14: on a tick that reaches the stop check, if one of the four stop
\* predicates holds (one whose threshold is absent never does) the
\* session sends a stopped announce, is Stopped afterwards and sends no
\* periodic announce in that tick; if none holds, no stopped announce is
\* sent and the session is not moved to Stopped.
C14_StopPredicates ==
  [][\A id \in IDs :
       /\ id \in DOMAIN instances
       /\ IsTick(id) \/ IsDriverTick(id)
       /\ ~\E i \in 1..Len(Sent(id)) :
             Sent(id)[i].event = "completed" /\ ~Sent(id)[i].ok
       => LET from  == Faker(id)
              to    == instances'[id].faker
              fires == \/ RatioFires(to.config, to.stats, to.torrent.total_size)
                       \/ UploadedFires(to.config, to.stats)
                       \/ DownloadedFires(to.config, to.stats)
                       \/ SeedTimeFires(to.config, to.stats)
          IN  /\ fires => /\ SentEvent(id, "stopped")
                          /\ to.state = "Stopped"
                          /\ to.stats.state = "Stopped"
                          /\ ~SentEvent(id, "none")
              /\ ~fires => /\ ~SentEvent(id, "stopped")
                           /\ to.state = "Stopped" => from.state = "Stopped"
    ]_vars

\* every announce the session of id has sent so far was answered
AllAnswered(id) == \A i \in 1..Len(announces[id]) : announces[id][i].ok

\* the run of the driven session is over: the clock has reached
\* DrivenMaxTime and no driver is due
RunOver ==
  /\ now + update_interval > DrivenMaxTime
  /\ \A id \in IDs : ~(drivers[id].alive /\ now >= drivers[id].wake)

\* id is a session that was started with a constant upload rate > 0,
\* jitter off and a ratio target that its rate reaches within the run
RatioTargetSession(id) ==
  /\ id \in DOMAIN instances
  /\ announces[id] # <<>>
  /\ announces[id][1].event = "started"
  /\ Faker(id).config.stop_at_ratio # None
  /\ Faker(id).config.upload_rate > 0
  /\ ~Faker(id).config.randomize_rates
  /\ ~Faker(id).config.progressive_rates
  /\ (Faker(id).config.stop_at_ratio - 1) * Faker(id).torrent.total_size
       <= 1000 * Faker(id).config.upload_rate * 1024 * (DrivenMaxTime - update_interval)

\* C15: if the tracker answered every announce, a driven session with a
\* constant upload rate > 0, jitter off and a ratio target has reached
\* Stopped when its run is over.
C15_RatioStopReached ==
  \A id \in IDs :
    RunOver /\ RatioTargetSession(id) /\ AllAnswered(id)
      => Faker(id).state = "Stopped"

\* C16: when a tick stops a session through a stop predicate, the reason
\* the CLI reports for the stop is the first predicate, in the order of
\* evaluation, that held in the engine at that tick.
C16_ReasonIsFiredPredicate ==
  [][\A id \in IDs :
       /\ id \in DOMAIN instances
       /\ IsTick(id) \/ IsDriverTick(id)
       /\ Faker(id).state # "Stopped"
       /\ instances'[id].faker.stats.state = "Stopped"
       => determine_stop_reason(instances'[id].faker.config,
                                instances'[id].faker.stats)
            = fired_condition(instances'[id].faker)
    ]_vars

\* the positions in the log of id of the answered announces whose response
\* carries an interval: started, periodic and completed
Observed(id) ==
  {i \in 1..Len(announces[id]) :
     announces[id][i].ok /\ announces[id][i].event # "stopped"}

\* the most recent of them
LastObserved(id) ==
  announces[id][CHOOSE i \in Observed(id) : \A j \in Observed(id) : j <= i]

\* C17: for any session that has observed an announce response,
\* next_announce - last_announce equals the interval carried by the most
\* recent response it observed (to a started, periodic or completed
\* announce).
C17_IntervalOfLastResponse ==
  \A id \in DOMAIN instances :
    Observed(id) # {} =>
      Faker(id).stats.next_announce - Faker(id).stats.last_announce
        = LastObserved(id).resp.interval

\* id is a session that has been Running since its start (it neither
\* completed a download nor met a stop condition) and whose tracker
\* answered every announce with interval = 60
SteadySession(id) ==
  /\ id \in DOMAIN instances
  /\ announces[id] # <<>>
  /\ Faker(id).state = "Running"
  /\ \A i \in 1..Len(announces[id]) :
       /\ announces[id][i].ok
       /\ announces[id][i].resp.interval = 60

\* C18: with a tracker that always answers interval = 60 and a driver
\* ticking every 5 s, a session that has run for 305 s with no other input
\* has sent exactly 6 announces: started at time 0, then one periodic
\* announce per elapsed 60 s, each at the first tick with
\* now >= next_announce (t = 60, 120, 180, 240, 300).
C18_SixAnnouncesIn305s ==
  \A id \in IDs :
    RunOver /\ SteadySession(id) =>
      /\ Len(announces[id]) = 6
      /\ announces[id][1].event = "started"
      /\ announces[id][1].t = 0
      /\ \A k \in 2..Len(announces[id]) :
           /\ announces[id][k].event = "none"
           /\ announces[id][k].t = 60 * (k - 1)

\* C18 witness: the run of such a session is over and its sixth announce
\* was the periodic one of t = 300
C18_Witness ==
  \E id \in IDs :
    /\ RunOver
    /\ SteadySession(id)
    /\ Len(announces[id]) = 6
    /\ announces[id][6].event = "none"
    /\ announces[id][6].t = 300

\* the positions before j in the log of id of the started, periodic and
\* completed announces whose response carried a tracker id
GaveTrackerId(id, j) ==
  {i \in 1..(j - 1) :
     /\ announces[id][i].ok
     /\ announces[id][i].event # "stopped"
     /\ announces[id][i].resp.tracker_id # None}

\* C19: once a response to a started, periodic or completed announce of a
\* session has carried a tracker id, every later announce of the session
\* carries the most recently received tracker id.
C19_TrackerIdEchoed ==
  \A id \in DOMAIN instances :
    \A j \in 1..Len(announces[id]) :
      GaveTrackerId(id, j) # {} =>
        LET last == CHOOSE i \in GaveTrackerId(id, j) :
                      \A k \in GaveTrackerId(id, j) : k <= i
        IN  announces[id][j].tracker_id = announces[id][last].resp.tracker_id

C21_RatioIsUploadedOverSize ==
  \A id \in DOMAIN instances :
    LET f == Faker(id)
    IN  IF f.torrent.total_size > 0
        THEN f.stats.ratio[1] * f.torrent.total_size
               = f.stats.uploaded * f.stats.ratio[2]
        ELSE /\ f.stats.ratio[1] = 0
             /\ f.state # "Completed"

\* this step is a boot: load_saved_state on the document persisted before
IsBoot == last_op'.name = "load_saved_state" /\ ncmd' = ncmd + 1

\* C22: persist then boot restores the registry: after load_saved_state
\* every persisted session exists again with uploaded and downloaded equal
\* to its persisted cumulative counters, and every session whose saved
\* state was Running is Running with a live driver.
C22_BootRestores ==
  [][IsBoot =>
       \A id \in DOMAIN persisted :
         /\ id \in DOMAIN instances'
         /\ instances'[id].faker.stats.uploaded = persisted[id].cumulative_uploaded
         /\ instances'[id].faker.stats.downloaded = persisted[id].cumulative_downloaded
         /\ persisted[id].state = "Running" =>
              /\ instances'[id].faker.state = "Running"
              /\ instances'[id].faker.stats.state = "Running"
              /\ drivers'[id].alive
    ]_vars

\* C23: between commands each session has at most one live driver, none
\* for an ID without session, and every session whose state is Running
\* (in both copies of the state) has one.
C23_RunningHasDriver ==
  \A id \in IDs :
    /\ drivers[id].alive => id \in DOMAIN instances
    /\ id \in DOMAIN instances
         /\ Faker(id).state = "Running"
         /\ Faker(id).stats.state = "Running"
       => drivers[id].alive

\* this step is the stream of s taking an item from its Receiver
IsItem(s) == last_op'.name \in {"lagged", "event"} /\ last_op'.id = s

\* C24: publishing a log or lifecycle event never blocks on subscribers
\* (send is possible however far behind they are, and changes no stream);
\* a subscriber that is at most the channel capacity behind (256 log
\* events, 64 lifecycle events) loses nothing, one that is further behind
\* loses exactly its oldest unread items beyond the capacity and its
\* stream stays open with the newer ones to read; the other subscribers
\* are not affected.
C24_LaggingSubscriber ==
  /\ [](sse # "none" =>
          /\ ENABLED Publish
          /\ \A s \in Subscribers : behind[s] > 0 => ENABLED Receive(s))
  /\ [][/\ last_op'.name = "send" =>
            \A s \in Subscribers : behind'[s] >= behind[s] /\ open'[s] = open[s]
        /\ \A s \in Subscribers : IsItem(s) =>
             /\ open'[s]
             /\ behind[s] <= capacity(sse) =>
                  /\ last_op'.name = "event"
                  /\ last_op'.lost = 0
                  /\ behind'[s] = behind[s] - 1
             /\ behind[s] > capacity(sse) =>
                  /\ last_op'.name = "lagged"
                  /\ last_op'.lost = behind[s] - capacity(sse)
                  /\ behind'[s] = capacity(sse)
             /\ \A t \in Subscribers \ {s} :
                  behind'[t] = behind[t] /\ open'[t] = open[t]
       ]_vars

\* C24 witness: on either channel a subscriber has just lost the two
\* oldest of its unread events, its stream is open with a full ring to
\* read, and the other subscriber has read everything
C24_Witness ==
  \E s \in Subscribers :
    /\ last_op = [name |-> "lagged", id |-> s, ok |-> FALSE, lost |-> 2]
    /\ behind[s] = capacity(sse)
    /\ open[s]
    /\ \A t \in Subscribers \ {s} : behind[t] = 0 /\ open[t]

\* the bytes of the value of the key info in the dictionary whose entries
\* start at position i of b, exactly as they stand in b
RECURSIVE InfoValueSlice(_, _)
InfoValueSlice(b, i) ==
  IF i > Len(b) \/ b[i] = "e" THEN <<>>
  ELSE LET key   == parse_bytes(b, parse_digits(b, i, 0))
           value == parse_value(b, key.next)
       IN  IF key.value.v = <<"i", "n", "f", "o">>
           THEN SubSeq(b, key.next, value.next - 1)
           ELSE InfoValueSlice(b, value.next)

\* C25: for every torrent accepted by from_bytes, info_hash is the SHA-1
\* of the exact byte slice of the outer dictionary's info value as it
\* stands in the input, also when that value is not in canonical form and
\* when the bytes 4:info occur before the info key.
C25_HashOfExactSlice ==
  arg.fn = "from_bytes" /\ ret.done /\ ret.ok =>
    ret.info_hash = Sha1(InfoValueSlice(arg.input, 2))

\* the name of a query parameter name=value
NameOf(parameter) == split(parameter, "=")[1]

\* the names of the parameters of a query, in order
ParamNames(query) ==
  LET parameters == split(query, "&")
  IN  [k \in 1..Len(parameters) |-> NameOf(parameters[k])]

\* the parameter names an announce of the given request must carry, in the
\* fixed order
ExpectedNames(client_config, request) ==
  << <<"i", "n", "f", "o", "_", "h", "a", "s", "h">>, <<"p", "e", "e", "r", "_", "i", "d">>, <<"p", "o", "r", "t">>, <<"u", "p", "l", "o", "a", "d", "e", "d">>, <<"d", "o", "w", "n", "l", "o", "a", "d", "e", "d">>,
     <<"l", "e", "f", "t">>, <<"c", "o", "m", "p", "a", "c", "t">> >>
  \o (IF request.no_peer_id THEN <<<<"n", "o", "_", "p", "e", "e", "r", "_", "i", "d">>>> ELSE <<>>)
  \o (IF request.event # "None" THEN <<<<"e", "v", "e", "n", "t">>>> ELSE <<>>)
  \o (IF request.ip # <<>> THEN <<<<"i", "p">>>> ELSE <<>>)
  \o (IF request.numwant # <<>> THEN <<<<"n", "u", "m", "w", "a", "n", "t">>>> ELSE <<>>)
  \o (IF request.key # <<>> THEN <<<<"k", "e", "y">>>> ELSE <<>>)
  \o (IF request.tracker_id # <<>> THEN <<<<"t", "r", "a", "c", "k", "e", "r", "i", "d">>>> ELSE <<>>)
  \o (IF client_config.supports_crypto THEN <<<<"s", "u", "p", "p", "o", "r", "t", "c", "r", "y", "p", "t", "o">>>> ELSE <<>>)

\* C26: build_announce_url emits the query parameters in the fixed order
\* info_hash, peer_id, port, uploaded, downloaded, left, compact, then
\* (when present) no_peer_id, event, ip, numwant, key, trackerid,
\* supportcrypto; event is absent exactly for periodic announces; the
\* query is joined to the base URL with ? if the base holds no ?, else
\* with &.
C26_AnnounceUrlOrder ==
  arg.fn = "build_announce_url" /\ ret.done =>
    LET base  == arg.tracker_url
        query == SubSeq(ret.url, Len(base) + 2, Len(ret.url))
    IN  /\ ret.ok
        /\ SubSeq(ret.url, 1, Len(base)) = base
        /\ ret.url[Len(base) + 1] = IF contains(base, "?") THEN "&" ELSE "?"
        /\ ParamNames(query) = ExpectedNames(arg.client_config, arg.request)
        /\ (\E k \in 1..Len(ParamNames(query)) : ParamNames(query)[k] = <<"e", "v", "e", "n", "t">>)
             <=> arg.request.event # "None"

\* C26 witness: the URL of a periodic announce with every optional
\* parameter but event, for a tracker URL that has a query of its own
C26_Witness ==
  /\ arg.fn = "build_announce_url"
  /\ ret.done
  /\ contains(arg.tracker_url, "?")
  /\ arg.request.event = "None"
  /\ arg.request.no_peer_id
  /\ arg.client_config.supports_crypto
  /\ Len(ParamNames(SubSeq(ret.url, Len(arg.tracker_url) + 2, Len(ret.url)))) = 13

\* the last position at which marker occurs in str, 0 if there is none
LastPosition(str, marker) ==
  LET at == {i \in 1..Len(str) : starts_with(SubSeq(str, i, Len(str)), marker)}
  IN  IF at = {} THEN 0 ELSE CHOOSE i \in at : \A o \in at : o <= i

\* str with only its last occurrence of from replaced by to
ReplaceLast(str, from, to) ==
  LET i == LastPosition(str, from)
  IN  IF i = 0 THEN str
      ELSE SubSeq(str, 1, i - 1) \o to \o SubSeq(str, i + Len(from), Len(str))

\* C27: the scrape URL is the announce URL with only its final /announce
\* path segment replaced by /scrape, followed by an info_hash query
\* parameter whose value is the same twenty uppercase %XX pairs that the
\* announce URL uses for that info hash.
C27_ScrapeUrl ==
  arg.fn = "build_scrape_url" /\ ret.done /\ ret.ok =>
    LET base == ReplaceLast(arg.tracker_url, <<"/", "a", "n", "n", "o", "u", "n", "c", "e">>, <<"/", "s", "c", "r", "a", "p", "e">>)
    IN  /\ starts_with(ret.url, base)
        /\ SubSeq(ret.url, Len(base) + 2, Len(ret.url))
             = <<"i", "n", "f", "o", "_", "h", "a", "s", "h", "=">> \o info_hash_encoded(arg.info_hash)

\* the body of the reply is a bencoded dictionary with a failure reason
\* string
CarriesFailure(reply) ==
  /\ reply.sent
  /\ parse(reply.body).ok
  /\ parse(reply.body).value.t = "Dict"
  /\ Has(parse(reply.body).value.v, <<"f", "a", "i", "l", "u", "r", "e", " ", "r", "e", "a", "s", "o", "n">>, "Bytes")

\* C28: any tracker reply to an announce whose body is a bencoded
\* dictionary containing the key failure reason is surfaced as
\* TrackerFailure(reason), regardless of the HTTP status code of the reply.
C28_FailureReasonSurfaced ==
  arg.fn = "announce" /\ ret.done /\ CarriesFailure(arg.reply) =>
    /\ ~ret.ok
    /\ ret.error = "TrackerFailure"
    /\ ret.reason = parse(arg.reply.body).value.v[<<"f", "a", "i", "l", "u", "r", "e", " ", "r", "e", "a", "s", "o", "n">>].v

\* the peer id prefixes the table gives for the default versions
TablePrefix ==
  [client_type \in ClientTypes |->
     CASE client_type = "QBittorrent" -> <<"-", "q", "B", "5", "1", "4", "0", "-">>
       [] client_type = "UTorrent" -> <<"-", "U", "T", "3", "5", "5", "0", "-">>
       [] client_type = "Transmission" -> <<"-", "T", "R", "4", "0", "5", "0", "-">>
       [] client_type = "Deluge" -> <<"-", "D", "E", "2", "1", "1", "0", "-">>]

\* C29: for each client variant at its default version, generate_peer_id
\* returns exactly 20 characters: the 8-character prefix of the table
\* (-qB5140-, -UT3550-, -TR4050-, -DE2110-) followed by 12 characters from
\* [0-9A-Za-z].
C29_DefaultPeerId ==
  arg.fn = "generate_peer_id" /\ ret.done /\ arg.version = <<>> =>
    /\ Len(ret.peer_id) = 20
    /\ SubSeq(ret.peer_id, 1, 8) = TablePrefix[arg.client_type]
    /\ \A i \in 9..20 : \E k \in 1..62 : ret.peer_id[i] = SuffixChars[k]

\* C30: peer_id and key are generated once per session: every announce of
\* a session (started, periodic, completed, stopped) carries the same
\* peer_id and the same key, and the peer_id published in the session's
\* Started event is that same value.
C30_OneIdentityPerSession ==
  /\ \A i \in 1..Len(cli.sent) :
       /\ cli.sent[i].peer_id = cli.sent[1].peer_id
       /\ cli.sent[i].key = cli.sent[1].key
  /\ \A e \in 1..Len(cli.events) :
       cli.events[e].event = "started" =>
         cli.events[e].peer_id = cli.sent[1].peer_id

\* a delete command returns, forced or not
IsDelete(force) ==
  /\ ncmd' = ncmd + 1
  /\ last_op'.name = IF force THEN "force_delete_instance" ELSE "delete_instance"

\* the instance of id came from the watch folder
Watched(id) == id \in DOMAIN instances /\ instances[id].source = "WatchFolder"

\* C31: delete_instance(id, force=false) on a WatchFolder-sourced instance
\* returns an error and leaves the registry entry and its driver unchanged;
\* in every other case (force=true, a Manual instance, an unknown id) it
\* returns Ok and the id is absent from the registry afterwards.
C31_DeleteRefusedOrGone ==
  [][\A force \in BOOLEAN :
       IsDelete(force) =>
         IF ~force /\ Watched(last_op'.id)
         THEN /\ ~last_op'.ok
              /\ instances' = instances
              /\ drivers' = drivers
         ELSE /\ last_op'.ok
              /\ last_op'.id \notin DOMAIN instances']_vars

\* C31 witness: a delete without force was refused for a watch-folder
\* instance whose driver is alive
C31_Witness ==
  /\ last_op.name = "delete_instance"
  /\ ~last_op.ok
  /\ Watched(last_op.id)
  /\ drivers[last_op.id].alive

\* C32: after stop_instance, pause_instance, delete_instance or
\* shutdown_all has returned, the driver starts no new tick and eventually
\* terminates, even if it was in the middle of a tick when the grace period
\* (2 s, or 5 s at shutdown) ran out.
C32_CancelledDriverEnds ==
  /\ [][cancel.at = "returned" =>
          ~(cancel.driver = "select" /\ cancel'.driver = "check")]_vars
  /\ (cancel.at = "returned") ~> (cancel.driver = "done")

\* C32 witness: shutdown_all has returned after its 5 s while the driver is
\* still inside update()
C32_Witness ==
  /\ cancel.at = "returned"
  /\ cancel.command = "shutdown_all"
  /\ cancel.driver = "update"
  /\ now >= cancel.deadline

\* an update_stats_only command returns for id
IsStatsOnly(id) ==
  /\ ncmd' = ncmd + 1
  /\ last_op'.name = "update_stats_only"
  /\ last_op'.id = id

\* C33: update_stats_only never sends any announce to the tracker (no
\* periodic, completed or stopped announce), for every session state and
\* configuration.
C33_StatsOnlyIsSilent ==
  [][\A id \in IDs : IsStatsOnly(id) => announces'[id] = announces[id]]_vars

\* C34: every log line emitted while an operation on session X is in
\* progress carries X's instance prefix and never another session's, under
\* any interleaving of operations on different sessions and any suspension
\* of an operation at an await point.
C34_LinesCarryOwnPrefix ==
  \A line \in logger.lines : line.prefix = <<"Instance", line.instance>>

\* the driver ticked the Running session of id in this step
Ticked(id) ==
  /\ last_op'.name = "driver"
  /\ last_op'.id = id
  /\ id \in DOMAIN instances
  /\ instances[id].faker.stats.state = "Running"
  /\ instances[id].faker.config.progressive_rates
  /\ ~instances[id].faker.config.randomize_rates

\* rate lies between the two ends a and b, in either order
Between(rate, a, b) == (a <= rate /\ rate <= b) \/ (b <= rate /\ rate <= a)

\* the base rate of a tick that read elapsed seconds of session time, given
\* the configured rate and target: between the two, the configured rate at
\* the start, the target from the horizon on
Ramped(base, rate, target, elapsed, horizon) ==
  LET goal == IF target = None THEN rate ELSE target
  IN  /\ Between(base, rate * 100, goal * 100)
      /\ elapsed >= horizon => base = goal * 100
      /\ (elapsed = 0 /\ horizon > 0) => base = rate * 100

PiecesLen(input) ==
  Len(parse(input).value.v[<<"i", "n", "f", "o">>].v[<<"p", "i", "e", "c", "e", "s">>].v)

\* C36: from_bytes fails on a torrent whose pieces string has a length that
\* is not a multiple of 20, and yields no metadata for it
C36_PiecesMultipleOf20 ==
  (arg.fn = "from_bytes" /\ ret.done /\ PiecesLen(arg.input) % 20 # 0) => ~ret.ok

\* the configuration is out of the ranges of validate_rate, validate_port
\* or validate_percentage
OutOfRange(config) ==
  \/ config.upload_rate < 0 \/ config.upload_rate > 1000000
  \/ config.download_rate < 0 \/ config.download_rate > 1000000
  \/ config.port < 1024
  \/ config.completion_percent < 0 \/ config.completion_percent > 100

\* C37: a start with an out-of-range configuration is rejected before a
\* session is created or changed and before an announce is sent: the
\* desktop command returns an error, leaves its map of fakers alone and
\* sends nothing, and the registry of the server never holds a session
\* with such a configuration
C37_OutOfRangeRejected ==
  /\ (arg.fn = "desktop_start_faker" /\ ret.done /\ OutOfRange(arg.config)) =>
       (~ret.ok /\ ret.fakers = arg.fakers /\ ret.sent = <<>>)
  /\ \A id \in DOMAIN instances : ~OutOfRange(instances[id].faker.config)

\* the byte counters of a session
Counters(stats) ==
  <<stats.uploaded, stats.downloaded, stats.left,
    stats.session_uploaded, stats.session_downloaded>>

\* C38: a tick on a Stopped session, update or update_stats_only, sends no
\* announce for it and changes none of its counters
C38_StoppedIsQuiet ==
  [][\A id \in DOMAIN instances :
       (instances[id].faker.stats.state = "Stopped" /\ IsTick(id)) =>
         /\ announces'[id] = announces[id]
         /\ id \in DOMAIN instances'
         /\ Counters(instances'[id].faker.stats) = Counters(instances[id].faker.stats)]_vars

\* C39: whatever integer interval the tracker answered with, 0 and negative
\* ones included, the interval is recorded and next_announce = now +
\* interval is computed without overflow: the call does not panic
C39_IntervalRecorded ==
  (arg.fn = "record_interval" /\ ret.done) => ret.ok

====
